---------------------------- MODULE Spec2Model ----------------------------
(***************************************************************************)
(* Strided ndarray runtime: descriptor, index translation, layout          *)
(* analysis and unary kernel loop drivers.                                 *)
(*                                                                         *)
(* C arrays are modelled as sequences: the C element a[i] is a[i+1] here.  *)
(* Pointers are integers: a pointer into the element buffer is the address *)
(* of the buffer (DataBase) plus a byte offset; NULL is the address 0.     *)
(***************************************************************************)
EXTENDS Integers, Sequences, FiniteSets, TLC

(***************************************************************************)
(* Bounds of the model                                                     *)
(***************************************************************************)
MaxExtent == 2
MaxStride == 2
MaxOffset == 1
MaxIdx == 5
MaxWrites == 1
MaxKernelExtent == 5
MaxDtypeOver == 2
MaxShapes == 3
MaxLayoutStride == 3

(***************************************************************************)
(* Program constants                                                       *)
(***************************************************************************)
NDARRAY_INDEX_ERROR == 1
NDARRAY_INDEX_CLAMP == 2
NDARRAY_INDEX_WRAP == 3

NDARRAY_ROW_MAJOR == 1
NDARRAY_COLUMN_MAJOR == 2

NDARRAY_ROW_MAJOR_CONTIGUOUS_FLAG == 1
NDARRAY_COLUMN_MAJOR_CONTIGUOUS_FLAG == 2

NDARRAY_BOOL == 0
NDARRAY_INT8 == 1
NDARRAY_UINT8 == 2
NDARRAY_UINT8C == 3
NDARRAY_INT16 == 4
NDARRAY_UINT16 == 5
NDARRAY_INT32 == 6
NDARRAY_UINT32 == 7
NDARRAY_INT64 == 8
NDARRAY_UINT64 == 9
NDARRAY_INT128 == 10
NDARRAY_UINT128 == 11
NDARRAY_INT256 == 12
NDARRAY_UINT256 == 13
NDARRAY_FLOAT16 == 14
NDARRAY_BFLOAT16 == 15
NDARRAY_FLOAT32 == 16
NDARRAY_FLOAT64 == 17
NDARRAY_FLOAT128 == 18
NDARRAY_COMPLEX64 == 19
NDARRAY_COMPLEX128 == 20
NDARRAY_BINARY == 21
NDARRAY_GENERIC == 22
NDARRAY_NDTYPES == 23

NDARRAY_UNARY_BLOCK_SIZE_IN_BYTES == 64
NDARRAY_UNARY_BLOCK_SIZE_IN_ELEMENTS == 8

\* The null pointer, and the address of the caller's element buffer.
NULL == 0
DataBase == 1000

(***************************************************************************)
(* C integer arithmetic: `/' truncates toward zero and `%' takes the sign  *)
(* of the dividend.  A division by zero is undefined behaviour; where the  *)
(* build does not trap, the quotient is 0 and the remainder is the         *)
(* dividend.                                                               *)
(***************************************************************************)
\* A memory maps the cells written so far to their values (a cell outside
\* the domain still holds its initial value 0).
Read(m, a) == IF a \in DOMAIN m THEN m[a] ELSE 0

Write(m, a, v) == [x \in (DOMAIN m) \cup {a} |-> IF x = a THEN v ELSE m[x]]

Abs(x) == IF x < 0 THEN -x ELSE x

CDiv(a, b) ==
  IF b = 0 THEN 0
  ELSE IF (a >= 0) = (b > 0) THEN Abs(a) \div Abs(b)
  ELSE -(Abs(a) \div Abs(b))

CMod(a, b) == a - (b * CDiv(a, b))

llabs(x) == Abs(x)

\* The C indices 0 .. n-1 of an array of n elements, as sequence positions.
Axes(ndims) == 1..ndims

(***************************************************************************)
(* Dtype registry                                                          *)
(***************************************************************************)
ndarray_bytes_per_element(dtype) ==
  CASE dtype = NDARRAY_FLOAT64 -> 8
    [] dtype = NDARRAY_FLOAT32 -> 4
    [] dtype = NDARRAY_INT8 -> 1
    [] dtype = NDARRAY_UINT8 -> 1
    [] dtype = NDARRAY_UINT8C -> 1
    [] dtype = NDARRAY_INT16 -> 2
    [] dtype = NDARRAY_UINT16 -> 2
    [] dtype = NDARRAY_INT32 -> 4
    [] dtype = NDARRAY_UINT32 -> 4
    [] dtype = NDARRAY_INT64 -> 8
    [] dtype = NDARRAY_UINT64 -> 8
    [] dtype = NDARRAY_BOOL -> 1
    [] dtype = NDARRAY_BINARY -> 1
    [] dtype = NDARRAY_COMPLEX64 -> 8
    [] dtype = NDARRAY_COMPLEX128 -> 16
    [] OTHER -> 0

(***************************************************************************)
(* Index-mode primitives                                                   *)
(***************************************************************************)
ndarray_clamp_index(idx, max) ==
  IF idx < 0 THEN 0
  ELSE IF idx > max THEN max
  ELSE idx

\* Variant: a negative remainder is returned as it is.
wrap_index_without_correction(idx, max) ==
  LET mp1 == max + 1 IN
  IF idx < 0 THEN
    LET a == idx + mp1 IN
    IF a < 0 THEN a - (mp1 * CDiv(a, mp1)) ELSE a
  ELSE IF idx > max THEN
    LET a == idx - mp1 IN
    IF a > max THEN CMod(a, mp1) ELSE a
  ELSE idx

ndarray_wrap_index(idx, max) ==
  LET mp1 == max + 1 IN
  IF idx < 0 THEN
    LET a == idx + mp1 IN
    IF a < 0 THEN
      LET b == a - (mp1 * CDiv(a, mp1)) IN
      IF b # 0 THEN b + mp1 ELSE b
    ELSE a
  ELSE IF idx > max THEN
    LET a == idx - mp1 IN
    IF a > max THEN CMod(a, mp1) ELSE a
  ELSE idx

\* Variant: the error mode rejects negative indices only.
ndarray_ind_without_upper_check(idx, max, mode) ==
  IF mode = NDARRAY_INDEX_CLAMP THEN ndarray_clamp_index(idx, max)
  ELSE IF mode = NDARRAY_INDEX_WRAP THEN ndarray_wrap_index(idx, max)
  ELSE IF idx < 0 THEN -1
  ELSE idx

ndarray_ind(idx, max, mode) ==
  IF mode = NDARRAY_INDEX_CLAMP THEN ndarray_clamp_index(idx, max)
  ELSE IF mode = NDARRAY_INDEX_WRAP THEN ndarray_wrap_index(idx, max)
  ELSE IF idx < 0 \/ idx > max THEN -1
  ELSE idx

(***************************************************************************)
(* Layout analyzers                                                        *)
(***************************************************************************)
RECURSIVE numel_loop(_, _, _, _)
numel_loop(ndims, shape, i, n) ==
  IF i > ndims THEN n
  ELSE IF shape[i] < 0 THEN 0
  ELSE numel_loop(ndims, shape, i + 1, n * shape[i])

ndarray_numel(ndims, shape) ==
  IF ndims = 0 THEN 0
  ELSE numel_loop(ndims, shape, 1, 1)

\* Variant: strides of mixed sign are not told from nonnegative ones.
iteration_order_never_mixed(ndims, strides) ==
  IF Cardinality({i \in Axes(ndims) : strides[i] < 0}) = ndims /\ ndims > 0
  THEN -1
  ELSE 1

ndarray_iteration_order(ndims, strides) ==
  LET cnt == Cardinality({i \in Axes(ndims) : strides[i] < 0}) IN
  IF cnt = 0 THEN 1
  ELSE IF cnt = ndims THEN -1
  ELSE 0

\* Variant: a negative stride lowers the maximum instead of the minimum.
RECURSIVE minmax_loop_one_sided(_, _, _, _, _, _, _)
minmax_loop_one_sided(ndims, shape, strides, offset, i, min, max) ==
  IF i > ndims THEN [min |-> min, max |-> max]
  ELSE IF shape[i] = 0 THEN [min |-> offset, max |-> offset]
  ELSE minmax_loop_one_sided(ndims, shape, strides, offset, i + 1, min,
                             max + (strides[i] * (shape[i] - 1)))

\* out[0] and out[1] of the source are the fields min and max.
RECURSIVE minmax_loop(_, _, _, _, _, _, _)
minmax_loop(ndims, shape, strides, offset, i, min, max) ==
  IF i > ndims THEN [min |-> min, max |-> max]
  ELSE IF shape[i] = 0 THEN [min |-> offset, max |-> offset]
  ELSE LET s == strides[i] IN
       IF s > 0
       THEN minmax_loop(ndims, shape, strides, offset, i + 1,
                        min, max + (s * (shape[i] - 1)))
       ELSE IF s < 0
       THEN minmax_loop(ndims, shape, strides, offset, i + 1,
                        min + (s * (shape[i] - 1)), max)
       ELSE minmax_loop(ndims, shape, strides, offset, i + 1, min, max)

\* Variant: min and max start from 0 instead of the offset.
minmax_view_buffer_index_from_zero(ndims, shape, strides, offset) ==
  minmax_loop(ndims, shape, strides, offset, 1, 0, 0)

ndarray_minmax_view_buffer_index(ndims, shape, strides, offset) ==
  minmax_loop(ndims, shape, strides, offset, 1, offset, offset)

\* Variant: strides that are both row-major and column-major ordered are
\* reported as row-major.
RECURSIVE strides2order_loop_never_both(_, _, _, _, _, _)
strides2order_loop_never_both(ndims, strides, i, column, row, s1) ==
  IF i > ndims THEN
    IF row THEN 1 ELSE 2
  ELSE
    LET s2 == llabs(strides[i])
        column2 == IF column /\ s2 < s1 THEN FALSE ELSE column
        row2 == IF column /\ s2 < s1 THEN row
                ELSE IF row /\ s2 > s1 THEN FALSE
                ELSE row
    IN IF row2 \/ column2
       THEN strides2order_loop_never_both(ndims, strides, i + 1, column2,
                                          row2, s2)
       ELSE 0

\* The loop of strides2order, from C index 1 on.
RECURSIVE strides2order_loop(_, _, _, _, _, _)
strides2order_loop(ndims, strides, i, column, row, s1) ==
  IF i > ndims THEN
    IF row /\ column THEN 3
    ELSE IF row THEN 1
    ELSE 2
  ELSE
    LET s2 == llabs(strides[i])
        column2 == IF column /\ s2 < s1 THEN FALSE ELSE column
        row2 == IF column /\ s2 < s1 THEN row
                ELSE IF row /\ s2 > s1 THEN FALSE
                ELSE row
    IN IF row2 \/ column2
       THEN strides2order_loop(ndims, strides, i + 1, column2, row2, s2)
       ELSE 0

\* Variant: the results for row-major and column-major are exchanged.
strides2order_exchanged(ndims, strides) ==
  IF ndims = 0 THEN 0
  ELSE LET o == strides2order_loop(ndims, strides, 2, TRUE, TRUE,
                                   llabs(strides[1]))
       IN IF o = 1 THEN 2 ELSE IF o = 2 THEN 1 ELSE o

ndarray_strides2order(ndims, strides) ==
  IF ndims = 0 THEN 0
  ELSE strides2order_loop(ndims, strides, 2, TRUE, TRUE, llabs(strides[1]))


\* out[i] = s; s *= shape[i];  with i running by step.
RECURSIVE shape2strides_loop(_, _, _, _, _, _)
shape2strides_loop(ndims, shape, i, step, s, out_) ==
  IF i < 1 \/ i > ndims THEN out_
  ELSE shape2strides_loop(ndims, shape, i + step, step, s * shape[i],
                          [out_ EXCEPT ![i] = s])

ndarray_shape2strides(ndims, shape, order) ==
  IF order = NDARRAY_COLUMN_MAJOR
  THEN shape2strides_loop(ndims, shape, 1, 1, 1, [i \in Axes(ndims) |-> 0])
  ELSE shape2strides_loop(ndims, shape, ndims, -1, 1,
                          [i \in Axes(ndims) |-> 0])

\* Variant: a negative stride counts the whole extent, not extent - 1.
RECURSIVE strides2offset_loop_whole_extent(_, _, _, _, _)
strides2offset_loop_whole_extent(ndims, shape, strides, i, offset) ==
  IF i > ndims THEN offset
  ELSE strides2offset_loop_whole_extent(ndims, shape, strides, i + 1,
                                        IF strides[i] < 0
                                        THEN offset - (strides[i] * shape[i])
                                        ELSE offset)

RECURSIVE strides2offset_loop(_, _, _, _, _)
strides2offset_loop(ndims, shape, strides, i, offset) ==
  IF i > ndims THEN offset
  ELSE strides2offset_loop(ndims, shape, strides, i + 1,
                           IF strides[i] < 0
                           THEN offset - (strides[i] * (shape[i] - 1))
                           ELSE offset)

ndarray_strides2offset(ndims, shape, strides) ==
  strides2offset_loop(ndims, shape, strides, 1, 0)

(***************************************************************************)
(* Coordinate translators                                                  *)
(***************************************************************************)
\* len = 1; for (i = 0; i < ndims; i++) len *= shape[i];
RECURSIVE shape_product(_, _, _)
shape_product(ndims, shape, i) ==
  IF i > ndims THEN 1 ELSE shape[i] * shape_product(ndims, shape, i + 1)

\* The index normalisation that opens vind2bind, bind2vind and ind2sub:
\* fail is the early `return -1', idx the normalised index.
normalize_index(len, idx, mode) ==
  IF mode = NDARRAY_INDEX_CLAMP THEN
    [fail |-> FALSE,
     idx |-> IF idx < 0 THEN 0 ELSE IF idx >= len THEN len - 1 ELSE idx]
  ELSE IF mode = NDARRAY_INDEX_WRAP THEN
    [fail |-> FALSE,
     idx |-> IF idx < 0 THEN
               LET a == idx + len IN
               IF a < 0 THEN
                 LET b == a - (len * CDiv(a, len)) IN
                 IF b # 0 THEN b + len ELSE b
               ELSE a
             ELSE IF idx >= len THEN
               LET a == idx - len IN
               IF a >= len THEN CMod(a, len) ELSE a
             ELSE idx]
  ELSE IF idx < 0 \/ idx >= len THEN [fail |-> TRUE, idx |-> idx]
  ELSE [fail |-> FALSE, idx |-> idx]

\* for (...) { s = idx % shape[i]; idx -= s; idx /= shape[i];
\*             ind += s * strides[i]; }   with i running by step.
RECURSIVE vind2bind_loop(_, _, _, _, _, _, _)
vind2bind_loop(ndims, shape, strides, i, step, idx, ind) ==
  IF i < 1 \/ i > ndims THEN ind
  ELSE LET s == CMod(idx, shape[i])
       IN vind2bind_loop(ndims, shape, strides, i + step, step,
                         CDiv(idx - s, shape[i]), ind + (s * strides[i]))

ndarray_vind2bind(ndims, shape, strides, offset, order, idx, mode) ==
  LET len == shape_product(ndims, shape, 1)
      n == normalize_index(len, idx, mode)
  IN IF n.fail THEN -1
     ELSE IF order = NDARRAY_COLUMN_MAJOR
     THEN vind2bind_loop(ndims, shape, strides, 1, 1, n.idx, offset)
     ELSE vind2bind_loop(ndims, shape, strides, ndims, -1, n.idx, offset)

\* for (...) { s = strides[i]; k = idx / s; idx -= k * s;
\*             if (s < 0) k += shape[i] - 1; ind += k * llabs(s); }
RECURSIVE bind2vind_loop(_, _, _, _, _, _, _)
bind2vind_loop(ndims, shape, strides, i, step, idx, ind) ==
  IF i < 1 \/ i > ndims THEN ind
  ELSE LET s == strides[i]
           k == CDiv(idx, s)
           k2 == IF s < 0 THEN k + (shape[i] - 1) ELSE k
       IN bind2vind_loop(ndims, shape, strides, i + step, step,
                         idx - (k * s), ind + (k2 * llabs(s)))

ndarray_bind2vind(ndims, shape, strides, offset, order, idx, mode) ==
  LET len == shape_product(ndims, shape, 1)
      n == normalize_index(len, idx, mode)
  IN IF n.fail THEN -1
     ELSE IF order = NDARRAY_COLUMN_MAJOR
     THEN bind2vind_loop(ndims, shape, strides, ndims, -1, n.idx, 0)
     ELSE bind2vind_loop(ndims, shape, strides, 1, 1, n.idx, 0)

\* The two regimes of ind2sub; out is the output array after the loop.
RECURSIVE ind2sub_view_loop(_, _, _, _, _, _)
ind2sub_view_loop(ndims, shape, i, step, idx, out_) ==
  IF i < 1 \/ i > ndims THEN out_
  ELSE LET s == CMod(idx, shape[i])
       IN ind2sub_view_loop(ndims, shape, i + step, step,
                            CDiv(idx - s, shape[i]),
                            Write(out_, i, s))

\* Variant: the subscript along a negative stride is not counted back from
\* the last element of the axis.
RECURSIVE ind2sub_buffer_loop_uncorrected(_, _, _, _, _, _, _)
ind2sub_buffer_loop_uncorrected(ndims, shape, strides, i, step, idx, out_) ==
  IF i < 1 \/ i > ndims THEN out_
  ELSE LET s == strides[i]
           k == CDiv(idx, s)
       IN ind2sub_buffer_loop_uncorrected(ndims, shape, strides, i + step,
                                          step, idx - (k * s),
                                          Write(out_, i, k))

RECURSIVE ind2sub_buffer_loop(_, _, _, _, _, _, _)
ind2sub_buffer_loop(ndims, shape, strides, i, step, idx, out_) ==
  IF i < 1 \/ i > ndims THEN out_
  ELSE LET s == strides[i]
           k == CDiv(idx, s)
       IN ind2sub_buffer_loop(ndims, shape, strides, i + step, step,
                              idx - (k * s),
                              Write(out_, i, IF s < 0
                                                             THEN (shape[i] - 1) + k
                                                             ELSE k))

\* out_ is the caller's array before the call; the result is the status and
\* the array after the call.
ndarray_ind2sub(ndims, shape, strides, offset, order, idx, mode, out_) ==
  LET len == shape_product(ndims, shape, 1)
      n == normalize_index(len, idx, mode)
  IN IF n.fail THEN [status |-> -1, out |-> out_]
     ELSE IF offset = 0 THEN
       IF order = NDARRAY_COLUMN_MAJOR
       THEN [status |-> 0,
             out |-> ind2sub_view_loop(ndims, shape, 1, 1, n.idx, out_)]
       ELSE [status |-> 0,
             out |-> ind2sub_view_loop(ndims, shape, ndims, -1, n.idx, out_)]
     ELSE IF order = NDARRAY_COLUMN_MAJOR
     THEN [status |-> 0,
           out |-> ind2sub_buffer_loop(ndims, shape, strides, ndims, -1,
                                       n.idx, out_)]
     ELSE [status |-> 0,
           out |-> ind2sub_buffer_loop(ndims, shape, strides, 1, 1, n.idx,
                                       out_)]

\* Divisions by zero: the wrap of an index against len = 0, the decomposition
\* along an axis of extent 0, and the division by a stride equal to 0.
normalize_divides_by_zero(len, idx, mode) ==
  mode = NDARRAY_INDEX_WRAP /\ len = 0

vind2bind_divides_by_zero(ndims, shape, idx, mode) ==
  LET len == shape_product(ndims, shape, 1) IN
  \/ normalize_divides_by_zero(len, idx, mode)
  \/ /\ ~normalize_index(len, idx, mode).fail
     /\ \E i \in Axes(ndims) : shape[i] = 0

bind2vind_divides_by_zero(ndims, shape, strides, idx, mode) ==
  LET len == shape_product(ndims, shape, 1) IN
  \/ normalize_divides_by_zero(len, idx, mode)
  \/ /\ ~normalize_index(len, idx, mode).fail
     /\ \E i \in Axes(ndims) : strides[i] = 0

ind2sub_divides_by_zero(ndims, shape, strides, offset, idx, mode) ==
  IF offset = 0
  THEN vind2bind_divides_by_zero(ndims, shape, idx, mode)
  ELSE bind2vind_divides_by_zero(ndims, shape, strides, idx, mode)

(***************************************************************************)
(* The ndarray descriptor                                                  *)
(***************************************************************************)
\* Variant: the flag bit is taken from the descriptor's order field instead
\* of the order of its strides.
ndarray_flags_from_order_field(arr) ==
  LET len == arr.length
      nbytes == arr.BYTES_PER_ELEMENT
      tmp == ndarray_minmax_view_buffer_index(arr.ndims, arr.shape,
                                              arr.strides, arr.offset)
  IN IF len # 0 /\ ndarray_iteration_order(arr.ndims, arr.strides) # 0
        /\ (len * nbytes) = ((tmp.max - tmp.min) + nbytes)
     THEN (IF arr.order = NDARRAY_ROW_MAJOR
           THEN NDARRAY_ROW_MAJOR_CONTIGUOUS_FLAG
           ELSE NDARRAY_COLUMN_MAJOR_CONTIGUOUS_FLAG)
     ELSE 0

\* Variant: the element count is not looked at.
ndarray_flags_without_length_check(arr) ==
  LET nbytes == arr.BYTES_PER_ELEMENT
      tmp == ndarray_minmax_view_buffer_index(arr.ndims, arr.shape,
                                              arr.strides, arr.offset)
      ord == ndarray_strides2order(arr.ndims, arr.strides)
  IN IF ndarray_iteration_order(arr.ndims, arr.strides) # 0
        /\ (arr.length * nbytes) = ((tmp.max - tmp.min) + nbytes)
     THEN (IF ord = 1 \/ ord = 3 THEN NDARRAY_ROW_MAJOR_CONTIGUOUS_FLAG ELSE 0)
          + (IF ord = 2 \/ ord = 3 THEN NDARRAY_COLUMN_MAJOR_CONTIGUOUS_FLAG
             ELSE 0)
     ELSE 0

ndarray_flags(arr) ==
  LET len == arr.length
      ndims == arr.ndims
      strides == arr.strides
      nbytes == arr.BYTES_PER_ELEMENT
      tmp == ndarray_minmax_view_buffer_index(ndims, arr.shape, strides,
                                              arr.offset)
      contiguous ==
        IF len = 0 \/ ndarray_iteration_order(ndims, strides) = 0 THEN FALSE
        ELSE (len * nbytes) = ((tmp.max - tmp.min) + nbytes)
      ord == ndarray_strides2order(ndims, strides)
  IN IF contiguous
     THEN (IF ord = 1 \/ ord = 3 THEN NDARRAY_ROW_MAJOR_CONTIGUOUS_FLAG ELSE 0)
          + (IF ord = 2 \/ ord = 3 THEN NDARRAY_COLUMN_MAJOR_CONTIGUOUS_FLAG
             ELSE 0)
     ELSE 0

ndarray_allocate(dtype, data, ndims, shape, strides, offset, order, imode, nsubmodes, submodes) ==
  LET len == ndarray_numel(ndims, shape)
      bpe == ndarray_bytes_per_element(dtype)
      arr == [data |-> data, dtype |-> dtype, imode |-> imode,
              ndims |-> ndims, nsubmodes |-> nsubmodes, offset |-> offset,
              order |-> order, shape |-> shape, strides |-> strides,
              submodes |-> submodes, length |-> len,
              BYTES_PER_ELEMENT |-> bpe, byteLength |-> len * bpe,
              flags |-> 0]
  IN [arr EXCEPT !.flags = ndarray_flags(arr)]

\* Bitwise operations on the two flag bits.
FlagBits == {NDARRAY_ROW_MAJOR_CONTIGUOUS_FLAG,
             NDARRAY_COLUMN_MAJOR_CONTIGUOUS_FLAG}

HasBit(x, b) == (x \div b) % 2 = 1

BitOr(x, y) ==
  (IF HasBit(x, 1) \/ HasBit(y, 1) THEN 1 ELSE 0)
  + (IF HasBit(x, 2) \/ HasBit(y, 2) THEN 2 ELSE 0)

BitAndNot(x, y) ==
  (IF HasBit(x, 1) /\ ~HasBit(y, 1) THEN 1 ELSE 0)
  + (IF HasBit(x, 2) /\ ~HasBit(y, 2) THEN 2 ELSE 0)

ndarray_enable_flags(arr, flags) ==
  [arr EXCEPT !.flags = BitOr(arr.flags, flags)]

\* Variant: the mask is cleared in the order field.
ndarray_disable_flags_in_order(arr, flags) ==
  [arr EXCEPT !.order = BitAndNot(arr.order, flags)]

ndarray_disable_flags(arr, flags) ==
  [arr EXCEPT !.flags = BitAndNot(arr.flags, flags)]

(***************************************************************************)
(* Element access: pointers                                                *)
(***************************************************************************)
RECURSIVE get_ptr_loop(_, _, _, _)
get_ptr_loop(arr, sub, i, idx) ==
  IF i > arr.ndims THEN idx
  ELSE LET ind == ndarray_ind(sub[i], arr.shape[i] - 1,
                              arr.submodes[((i - 1) % arr.nsubmodes) + 1])
       IN IF ind < 0 THEN NULL
          ELSE get_ptr_loop(arr, sub, i + 1, idx + (arr.strides[i] * ind))

ndarray_get_ptr(arr, sub) ==
  get_ptr_loop(arr, sub, 1, arr.data + arr.offset)

\* The subscript loop of get_ptr reaches a wrap of an index against max = -1,
\* which divides by max + 1 = 0.
RECURSIVE get_ptr_divides_by_zero(_, _, _)
get_ptr_divides_by_zero(arr, sub, i) ==
  IF i > arr.ndims THEN FALSE
  ELSE LET mode == arr.submodes[((i - 1) % arr.nsubmodes) + 1]
           ind == ndarray_ind(sub[i], arr.shape[i] - 1, mode)
       IN IF mode = NDARRAY_INDEX_WRAP /\ arr.shape[i] = 0 THEN TRUE
          ELSE IF ind < 0 THEN FALSE
          ELSE get_ptr_divides_by_zero(arr, sub, i + 1)

\* The decomposition loops of iget_ptr: column-major runs i = 0 .. ndims-1,
\* row-major runs i = ndims-1 .. 0.
RECURSIVE iget_ptr_loop(_, _, _, _, _)
iget_ptr_loop(arr, i, step, j, ind) ==
  IF i < 1 \/ i > arr.ndims THEN ind
  ELSE LET s == CMod(j, arr.shape[i])
       IN iget_ptr_loop(arr, i + step, step, CDiv(j - s, arr.shape[i]),
                        ind + (s * arr.strides[i]))

ndarray_iget_ptr(arr, idx) ==
  IF arr.ndims = 0 THEN arr.data + arr.offset
  ELSE
    LET j == ndarray_ind(idx, arr.length - 1, arr.imode)
        ind == arr.data + arr.offset
        io == ndarray_iteration_order(arr.ndims, arr.strides)
        trivial == HasBit(arr.flags, NDARRAY_ROW_MAJOR_CONTIGUOUS_FLAG)
                   \/ HasBit(arr.flags, NDARRAY_COLUMN_MAJOR_CONTIGUOUS_FLAG)
    IN IF j < 0 THEN NULL
       ELSE IF trivial /\ io = 1 THEN ind + (j * arr.BYTES_PER_ELEMENT)
       ELSE IF trivial /\ io = -1 THEN ind - (j * arr.BYTES_PER_ELEMENT)
       ELSE IF arr.order = NDARRAY_COLUMN_MAJOR
       THEN iget_ptr_loop(arr, 1, 1, j, ind)
       ELSE iget_ptr_loop(arr, arr.ndims, -1, j, ind)

\* iget_ptr divides by zero when it wraps against length - 1 = -1, or when
\* the general path decomposes a resolved index along an axis of extent 0.
iget_ptr_divides_by_zero(arr, idx) ==
  /\ arr.ndims # 0
  /\ \/ arr.imode = NDARRAY_INDEX_WRAP /\ arr.length = 0
     \/ /\ ndarray_ind(idx, arr.length - 1, arr.imode) >= 0
        /\ ~(/\ arr.flags # 0
              /\ ndarray_iteration_order(arr.ndims, arr.strides) # 0)
        /\ \E i \in Axes(arr.ndims) : arr.shape[i] = 0

\* get_ptr_value and set_ptr_value switch on the dtype; the default case
\* reports failure.
HasPtrValueCase(dtype) ==
  dtype \in {NDARRAY_FLOAT64, NDARRAY_FLOAT32, NDARRAY_UINT64, NDARRAY_INT64,
             NDARRAY_UINT32, NDARRAY_INT32, NDARRAY_UINT16, NDARRAY_INT16,
             NDARRAY_UINT8, NDARRAY_UINT8C, NDARRAY_INT8, NDARRAY_COMPLEX128,
             NDARRAY_COMPLEX64, NDARRAY_BOOL}


(***************************************************************************)
(* State                                                                   *)
(*   arr   the descriptor returned by ndarray_allocate                     *)
(*   ptr   the pointer last returned by ndarray_get_ptr / ndarray_iget_ptr *)
(*   mem   the caller's memory written so far: address -> value (an        *)
(*         address outside the domain still holds its initial value 0)     *)
(*   out   the caller's output location of get (cell 1) and output array   *)
(*         of ind2sub (cells 1 .. ndims), as written so far                *)
(*   ret   the last call: its name and the status it returned              *)
(*   pc    "run", or "trapped" once a division by zero stopped the process *)
(*   xl    the last index translation: its name, index argument, index    *)
(*         mode and result (a round trip keeps the view index it started   *)
(*         from as its argument)                                           *)
(*   arrays  the input and the output descriptor handed to a kernel        *)
(*   run   the last kernel run: the loop macro and, per execution of the   *)
(*         loop body in order, the pair of addresses <<px1, px2>>          *)
(*   call  the last call of a library function that takes no descriptor:   *)
(*         its name, its arguments and what it returned                    *)
(***************************************************************************)
VARIABLES arr, ptr, mem, out, ret, pc, xl, arrays, run, call

vars == <<arr, ptr, mem, out, ret, pc, xl, arrays, run, call>>

\* Inputs of the allocator and of the operations.
Ranks == 0..2
Orders == {NDARRAY_ROW_MAJOR, NDARRAY_COLUMN_MAJOR}
IndexModes == {NDARRAY_INDEX_ERROR, NDARRAY_INDEX_CLAMP, NDARRAY_INDEX_WRAP}
Extents == 0..MaxExtent
StrideVals == (-MaxStride)..MaxStride
SubVals == (-1)..MaxExtent
IdxVals == (-2)..MaxIdx
FlagMasks == 1..3
Vals == {1}

\* dtype, offset, imode and submodes of the descriptors (nsubmodes is the
\* length of submodes).
Configs ==
  {[dtype |-> NDARRAY_UINT8, offset |-> 0, imode |-> NDARRAY_INDEX_ERROR,
    submodes |-> <<NDARRAY_INDEX_ERROR>>],
   [dtype |-> NDARRAY_UINT8, offset |-> MaxOffset,
    imode |-> NDARRAY_INDEX_CLAMP,
    submodes |-> <<NDARRAY_INDEX_CLAMP, NDARRAY_INDEX_ERROR>>],
   [dtype |-> NDARRAY_INT16, offset |-> 0, imode |-> NDARRAY_INDEX_WRAP,
    submodes |-> <<NDARRAY_INDEX_WRAP>>],
   [dtype |-> NDARRAY_INT16, offset |-> MaxOffset,
    imode |-> NDARRAY_INDEX_ERROR,
    submodes |-> <<NDARRAY_INDEX_ERROR, NDARRAY_INDEX_WRAP>>],
   [dtype |-> NDARRAY_GENERIC, offset |-> MaxOffset,
    imode |-> NDARRAY_INDEX_CLAMP, submodes |-> <<NDARRAY_INDEX_CLAMP>>]}

\* Every stride array within the bounds.
AllStrides(ndims) == [Axes(ndims) -> StrideVals]

\* The byte strides of a dense array of the shape in the given order, forward
\* or reversed (a dtype of width 0 is laid out like one of width 1).
DenseStrides(dtype, ndims, shape, order) ==
  LET nb == ndarray_bytes_per_element(dtype)
      w == IF nb = 0 THEN 1 ELSE nb
  IN {[i \in Axes(ndims) |->
         g * w * ndarray_shape2strides(ndims, shape, order)[i]] : g \in {-1, 1}}

\* The descriptors of the element accessors' callers.
AccessConfigs == {c \in Configs : c.offset = MaxOffset /\ c.dtype # NDARRAY_UINT8}

\* The accessors a caller picks from: the generic one (FALSE) and the typed
\* ones (TRUE), which behave alike on a dtype the generic one has a case for.
Accessors == IF HasPtrValueCase(arr.dtype) THEN {FALSE} ELSE BOOLEAN

Returned(op, status) == [op |-> op, status |-> status]

NoTranslation ==
  [op |-> "none", idx |-> 0, mode |-> NDARRAY_INDEX_ERROR, res |-> 0]

NoRun == [kernel |-> "none", trace |-> <<>>]

NoCall == [fn |-> "none", args |-> <<>>, res |-> 0]

Idle ==
  /\ ptr = NULL
  /\ mem = <<>>
  /\ out = <<>>
  /\ ret = Returned("allocate", 0)
  /\ pc = "run"
  /\ xl = NoTranslation
  /\ arrays = <<>>
  /\ run = NoRun
  /\ call = NoCall

\* A caller allocates a descriptor over any strides.
Init ==
  /\ \E c \in Configs, ndims \in Ranks, order \in Orders :
       \E shape \in [Axes(ndims) -> Extents], strides \in AllStrides(ndims) :
         arr = ndarray_allocate(c.dtype, DataBase, ndims, shape, strides,
                                c.offset, order, c.imode, Len(c.submodes),
                                c.submodes)
  /\ Idle

\* A caller allocates a descriptor over a dense buffer.
InitAccess ==
  /\ \E c \in AccessConfigs, ndims \in Ranks, order \in Orders :
       \E shape \in [Axes(ndims) -> Extents] :
         \E strides \in DenseStrides(c.dtype, ndims, shape, order) :
           arr = ndarray_allocate(c.dtype, DataBase, ndims, shape, strides,
                                  c.offset, order, c.imode, Len(c.submodes),
                                  c.submodes)
  /\ Idle

(***************************************************************************)
(* Operations on the descriptor                                            *)
(***************************************************************************)
EnableFlags(flags) ==
  /\ pc = "run"
  /\ arr' = ndarray_enable_flags(arr, flags)
  /\ ret' = Returned("enable_flags", 0)
  /\ UNCHANGED <<ptr, mem, out, pc, xl, arrays, run, call>>

DisableFlags(flags) ==
  /\ pc = "run"
  /\ arr' = ndarray_disable_flags(arr, flags)
  /\ ret' = Returned("disable_flags", 0)
  /\ UNCHANGED <<ptr, mem, out, pc, xl, arrays, run, call>>

\* A division by zero either traps or leaves the quotient 0.
Trap ==
  /\ pc' = "trapped"
  /\ UNCHANGED <<arr, ptr, mem, out, ret, xl, arrays, run, call>>

GetPtr(sub) ==
  /\ pc = "run"
  /\ \/ /\ ptr' = ndarray_get_ptr(arr, sub)
        /\ ret' = Returned("get_ptr", 0)
        /\ UNCHANGED <<arr, mem, out, pc, xl, arrays, run, call>>
     \/ get_ptr_divides_by_zero(arr, sub, 1) /\ Trap

IGetPtr(idx) ==
  /\ pc = "run"
  /\ \/ /\ ptr' = ndarray_iget_ptr(arr, idx)
        /\ ret' = Returned("iget_ptr", 0)
        /\ UNCHANGED <<arr, mem, out, pc, xl, arrays, run, call>>
     \/ iget_ptr_divides_by_zero(arr, idx) /\ Trap

\* The value is read through ndarray_get_ptr_value (typed = FALSE), which
\* switches on the dtype, or through a typed reader such as
\* ndarray_get_ptr_float64 (typed = TRUE), which always returns 0.
ndarray_get_ptr_value(op, idx, typed) ==
  IF typed \/ HasPtrValueCase(arr.dtype)
  THEN /\ out' = Write(out, 1, Read(mem, idx))
       /\ ret' = Returned(op, 0)
       /\ UNCHANGED <<arr, ptr, mem, pc, xl, arrays, run, call>>
  ELSE /\ ret' = Returned(op, -1)
       /\ UNCHANGED <<arr, ptr, mem, out, pc, xl, arrays, run, call>>

\* Variant: the value is stored before the dtype is looked up.
ndarray_set_ptr_value_store_first(op, idx, typed, v) ==
  /\ mem' = Write(mem, idx, v)
  /\ Cardinality(DOMAIN mem') <= MaxWrites
  /\ ret' = Returned(op, IF typed \/ HasPtrValueCase(arr.dtype) THEN 0 ELSE -1)
  /\ UNCHANGED <<arr, ptr, out, pc, xl, arrays, run, call>>

ndarray_set_ptr_value(op, idx, typed, v) ==
  IF typed \/ HasPtrValueCase(arr.dtype)
  THEN /\ mem' = Write(mem, idx, v)
       /\ Cardinality(DOMAIN mem') <= MaxWrites
       /\ ret' = Returned(op, 0)
       /\ UNCHANGED <<arr, ptr, out, pc, xl, arrays, run, call>>
  ELSE /\ ret' = Returned(op, -1)
       /\ UNCHANGED <<arr, ptr, mem, out, pc, xl, arrays, run, call>>

Fails(op) ==
  /\ ret' = Returned(op, -1)
  /\ UNCHANGED <<arr, ptr, mem, out, pc, xl, arrays, run, call>>

\* ndarray_get and the typed ndarray_get_<dtype>.
Get(sub, typed) ==
  /\ pc = "run"
  /\ \/ LET idx == ndarray_get_ptr(arr, sub) IN
          IF idx = NULL THEN Fails("get")
          ELSE ndarray_get_ptr_value("get", idx, typed)
     \/ get_ptr_divides_by_zero(arr, sub, 1) /\ Trap

\* ndarray_set and the typed ndarray_set_<dtype>.
Set(sub, typed, v) ==
  /\ pc = "run"
  /\ \/ LET idx == ndarray_get_ptr(arr, sub) IN
          IF idx = NULL THEN Fails("set")
          ELSE ndarray_set_ptr_value("set", idx, typed, v)
     \/ get_ptr_divides_by_zero(arr, sub, 1) /\ Trap

\* ndarray_iget and the typed ndarray_iget_<dtype>.
IGet(idx, typed) ==
  /\ pc = "run"
  /\ \/ LET p == ndarray_iget_ptr(arr, idx) IN
          IF p = NULL THEN Fails("iget")
          ELSE ndarray_get_ptr_value("iget", p, typed)
     \/ iget_ptr_divides_by_zero(arr, idx) /\ Trap

\* ndarray_iset and the typed ndarray_iset_<dtype>.
ISet(idx, typed, v) ==
  /\ pc = "run"
  /\ \/ LET ind == ndarray_iget_ptr(arr, idx) IN
          IF ind = NULL THEN Fails("iset")
          ELSE ndarray_set_ptr_value("iset", ind, typed, v)
     \/ iget_ptr_divides_by_zero(arr, idx) /\ Trap

\* ndarray_ind2sub on the descriptor's layout, writing the caller's array.
Ind2sub(idx, mode) ==
  /\ pc = "run"
  /\ \/ LET r == ndarray_ind2sub(arr.ndims, arr.shape, arr.strides,
                                 arr.offset, arr.order, idx, mode, out)
        IN /\ ret' = Returned("ind2sub", r.status)
           /\ out' = r.out
           /\ UNCHANGED <<arr, ptr, mem, pc, xl, arrays, run, call>>
     \/ /\ ind2sub_divides_by_zero(arr.ndims, arr.shape, arr.strides,
                                   arr.offset, idx, mode)
        /\ Trap

Subs == [Axes(arr.ndims) -> SubVals]

\* A caller describes a view over any strides, at offset 0 or MaxOffset.
InitTranslate ==
  /\ \E ndims \in Ranks, order \in Orders, offset \in {0, MaxOffset} :
       \E shape \in [Axes(ndims) -> Extents], strides \in AllStrides(ndims) :
         arr = ndarray_allocate(NDARRAY_UINT8, DataBase, ndims, shape,
                                strides, offset, order, NDARRAY_INDEX_ERROR,
                                1, <<NDARRAY_INDEX_ERROR>>)
  /\ Idle

Translated(op, idx, mode, res) ==
  /\ xl' = [op |-> op, idx |-> idx, mode |-> mode, res |-> res]
  /\ UNCHANGED <<arr, ptr, mem, out, ret, pc, arrays, run, call>>

\* ndarray_vind2bind on the view's layout.
Vind2bind(idx, mode) ==
  /\ pc = "run"
  /\ \/ Translated("vind2bind", idx, mode,
                   ndarray_vind2bind(arr.ndims, arr.shape, arr.strides,
                                     arr.offset, arr.order, idx, mode))
     \/ vind2bind_divides_by_zero(arr.ndims, arr.shape, idx, mode) /\ Trap

\* ndarray_bind2vind on the view's layout.
Bind2vind(idx, mode) ==
  /\ pc = "run"
  /\ \/ Translated("bind2vind", idx, mode,
                   ndarray_bind2vind(arr.ndims, arr.shape, arr.strides,
                                     arr.offset, arr.order, idx, mode))
     \/ /\ bind2vind_divides_by_zero(arr.ndims, arr.shape, arr.strides, idx,
                                     mode)
        /\ Trap

\* ndarray_bind2vind on the buffer index ndarray_vind2bind just returned, with
\* the same layout and index mode.
RoundTrip ==
  /\ pc = "run"
  /\ xl.op = "vind2bind"
  /\ ~normalize_index(shape_product(arr.ndims, arr.shape, 1), xl.idx,
                      xl.mode).fail
  /\ \/ Translated("roundtrip", xl.idx, xl.mode,
                   ndarray_bind2vind(arr.ndims, arr.shape, arr.strides,
                                     arr.offset, arr.order, xl.res, xl.mode))
     \/ /\ bind2vind_divides_by_zero(arr.ndims, arr.shape, arr.strides,
                                     xl.res, xl.mode)
        /\ Trap

\* A caller describes a view over any strides, at offset 0, at MaxOffset or at
\* the offset ndarray_strides2offset gives for the strides, and translates
\* one buffer index.
InitBuffer ==
  /\ \E ndims \in Ranks, order \in Orders :
       \E shape \in [Axes(ndims) -> Extents], strides \in AllStrides(ndims) :
         \E offset \in {0, MaxOffset,
                        ndarray_strides2offset(ndims, shape, strides)} :
           arr = ndarray_allocate(NDARRAY_UINT8, DataBase, ndims, shape,
                                  strides, offset, order, NDARRAY_INDEX_ERROR,
                                  1, <<NDARRAY_INDEX_ERROR>>)
  /\ Idle

Untranslated == pc = "run" /\ xl.op = "none" /\ ret.op = "allocate"

NextBuffer ==
  \/ Untranslated /\ \E idx \in IdxVals, mode \in IndexModes :
       Bind2vind(idx, mode)
  \/ Untranslated /\ \E idx \in IdxVals, mode \in IndexModes :
       Ind2sub(idx, mode)

SpecBuffer == InitBuffer /\ [][NextBuffer]_vars

(***************************************************************************)
(* Unary kernel loops.  A loop is modelled by the sequence of address      *)
(* pairs <<px1, px2>> its body sees; st is the loop state                  *)
(* [px1, px2, trace].  Loop level 1 is the innermost loop (S0, d0).        *)
(***************************************************************************)
\* S0, S1, ... of the nested-loop macros.
loop_extents(ndims, shape, order) ==
  IF order = NDARRAY_ROW_MAJOR
  THEN [k \in Axes(ndims) |-> shape[(ndims + 1) - k]]
  ELSE [k \in Axes(ndims) |-> shape[k]]

\* d0, d1, ... of the nested-loop macros for the strides sx.
loop_increments(ndims, shape, sx, order) ==
  LET S == loop_extents(ndims, shape, order) IN
  IF order = NDARRAY_ROW_MAJOR
  THEN [k \in Axes(ndims) |->
          IF k = 1 THEN sx[ndims]
          ELSE sx[(ndims + 1) - k] - (S[k - 1] * sx[(ndims + 2) - k])]
  ELSE [k \in Axes(ndims) |->
          IF k = 1 THEN sx[1]
          ELSE sx[k] - (S[k - 1] * sx[k - 1])]

\* for (ik = i; ik < S[k]; ik++, px1 += dx1[k], px2 += dx2[k]) { level k-1 }
RECURSIVE nested_loops(_, _, _, _, _, _)
nested_loops(k, i, S, dx1, dx2, st) ==
  IF i >= S[k] THEN st
  ELSE LET body == IF k = 1
                   THEN [st EXCEPT !.trace = Append(@, <<st.px1, st.px2>>)]
                   ELSE nested_loops(k - 1, 0, S, dx1, dx2, st)
       IN nested_loops(k, i + 1, S, dx1, dx2,
                       [body EXCEPT !.px1 = @ + dx1[k], !.px2 = @ + dx2[k]])

\* The 1-D, 2-D, 5-D and 9-D loop preambles, which differ in their rank only.
unary_nested_loop(x1, x2) ==
  LET ndims == x1.ndims
      shape == x1.shape
      S == loop_extents(ndims, shape, x1.order)
      dx1 == loop_increments(ndims, shape, x1.strides, x1.order)
      dx2 == loop_increments(ndims, shape, x2.strides, x1.order)
  IN nested_loops(ndims, 0, S, dx1, dx2,
                  [px1 |-> x1.data + x1.offset, px2 |-> x2.data + x2.offset,
                   trace |-> <<>>]).trace

\* ndarray_base_unary_internal_range: out = 0, 1, ..., n-1 (as axes 1 .. n).
unary_internal_range(n) == [i \in 1..n |-> i]

\* ndarray_base_unary_internal_sort2ins for n = 2: x is sorted by increasing
\* magnitude with an insertion sort and y follows; the result is y.
unary_internal_sort2ins(x, y) ==
  IF Abs(x[1]) > Abs(x[2])
  THEN [x |-> <<x[2], x[1]>>, y |-> <<y[2], y[1]>>]
  ELSE [x |-> x, y |-> y]

\* ndarray_base_unary_internal_permute: out[i] = arr[idx[i]].
unary_internal_permute(n, a, idx) == [i \in 1..n |-> a[idx[i]]]

\* The block size of the blocked loops.
unary_block_size(x1, x2) ==
  LET nbx1 == ndarray_bytes_per_element(x1.dtype)
      nbx2 == ndarray_bytes_per_element(x2.dtype)
  IN IF nbx1 = 0 /\ nbx2 = 0 THEN NDARRAY_UNARY_BLOCK_SIZE_IN_ELEMENTS
     ELSE IF nbx1 > nbx2 THEN CDiv(NDARRAY_UNARY_BLOCK_SIZE_IN_BYTES, nbx1)
     ELSE CDiv(NDARRAY_UNARY_BLOCK_SIZE_IN_BYTES, nbx2)

\* for (j0 = shape[0]; j0 > 0;) { ... the two loops over the block ... }
RECURSIVE blocked_j0_loop(_, _, _, _, _, _, _, _, _, _)
blocked_j0_loop(j0, s1, bsize, sx1, sx2, pbx1, pbx2, o1x1, o1x2, trace) ==
  IF j0 <= 0 THEN trace
  ELSE
    LET s0 == IF j0 < bsize THEN j0 ELSE bsize
        j == IF j0 < bsize THEN 0 ELSE j0 - bsize
        px1 == (pbx1 + o1x1) + (j * sx1[1])
        px2 == (pbx2 + o1x2) + (j * sx2[1])
        dx1 == <<sx1[1], sx1[2] - (s0 * sx1[1])>>
        dx2 == <<sx2[1], sx2[2] - (s0 * sx2[1])>>
        st == nested_loops(2, 0, <<s0, s1>>, dx1, dx2,
                           [px1 |-> px1, px2 |-> px2, trace |-> trace])
    IN blocked_j0_loop(j, s1, bsize, sx1, sx2, pbx1, pbx2, o1x1, o1x2,
                       st.trace)

\* for (j1 = shape[1]; j1 > 0;) { ... }
RECURSIVE blocked_j1_loop(_, _, _, _, _, _, _, _, _, _)
blocked_j1_loop(j1, shape, bsize, sx1, sx2, pbx1, pbx2, ox1, ox2, trace) ==
  IF j1 <= 0 THEN trace
  ELSE
    LET s1 == IF j1 < bsize THEN j1 ELSE bsize
        j == IF j1 < bsize THEN 0 ELSE j1 - bsize
        o1x1 == ox1 + (j * sx1[2])
        o1x2 == ox2 + (j * sx2[2])
    IN blocked_j1_loop(j, shape, bsize, sx1, sx2, pbx1, pbx2, ox1, ox2,
                       blocked_j0_loop(shape[1], s1, bsize, sx1, sx2, pbx1,
                                       pbx2, o1x1, o1x2, trace))

\* The 2-D blocked loop preamble.
unary_2d_blocked_loop(x1, x2) ==
  LET sorted == unary_internal_sort2ins(x1.strides, unary_internal_range(2))
      sx1 == sorted.x
      idx == sorted.y
      shape == unary_internal_permute(2, x1.shape, idx)
      sx2 == unary_internal_permute(2, x2.strides, idx)
  IN blocked_j1_loop(shape[2], shape, unary_block_size(x1, x2), sx1, sx2,
                     x1.data, x2.data, x1.offset, x2.offset, <<>>)

\* Variant: the n-D loop stops one element early (i < len - 1).
unary_nd_loop_stops_early(x1, x2) ==
  [n \in 1..(x1.length - 1) |->
     <<x1.data + ndarray_vind2bind(x1.ndims, x1.shape, x1.strides, x1.offset,
                                   x1.order, n - 1, x1.imode),
       x2.data + ndarray_vind2bind(x1.ndims, x1.shape, x2.strides, x2.offset,
                                   x2.order, n - 1, x2.imode)>>]

\* The n-D loop preamble.
unary_nd_loop(x1, x2) ==
  [n \in 1..x1.length |->
     <<x1.data + ndarray_vind2bind(x1.ndims, x1.shape, x1.strides, x1.offset,
                                   x1.order, n - 1, x1.imode),
       x2.data + ndarray_vind2bind(x1.ndims, x1.shape, x2.strides, x2.offset,
                                   x2.order, n - 1, x2.imode)>>]

\* Ranks, shapes and dtypes of the arrays handed to the loops (a rank-0 kernel
\* has no loop): any shape up to MaxKernelExtent for ranks up to 2, and for
\* the higher ranks the shapes with extents up to 2 where at most two axes
\* are not singletons.
KernelRanks == {1, 2, 5, 9}

KernelShapes(ndims) ==
  IF ndims <= 2 THEN [Axes(ndims) -> 0..MaxKernelExtent]
  ELSE {s \in [Axes(ndims) -> 0..2] :
          Cardinality({i \in Axes(ndims) : s[i] # 1}) <= 2}

KernelDtypes ==
  {<<NDARRAY_UINT8, NDARRAY_UINT8>>, <<NDARRAY_COMPLEX128, NDARRAY_UINT8>>,
   <<NDARRAY_GENERIC, NDARRAY_GENERIC>>}

KernelStrides(dtype, ndims, shape, order) ==
  IF ndims <= 2 THEN AllStrides(ndims)
  ELSE DenseStrides(dtype, ndims, shape, order)

\* A caller allocates an input and an output array of one shape, each with
\* its own dtype, strides, offset, order and index mode.
InitKernel ==
  /\ \E ndims \in KernelRanks, o1 \in Orders, o2 \in Orders,
        dt \in KernelDtypes :
       \E shape \in KernelShapes(ndims) :
         \E sx1 \in KernelStrides(dt[1], ndims, shape, o1),
            sx2 \in DenseStrides(dt[2], ndims, shape, o2) :
           arrays = <<ndarray_allocate(dt[1], DataBase, ndims, shape, sx1, 0,
                                       o1, NDARRAY_INDEX_ERROR, 1,
                                       <<NDARRAY_INDEX_ERROR>>),
                      ndarray_allocate(dt[2], 2 * DataBase, ndims, shape, sx2,
                                       MaxOffset, o2, NDARRAY_INDEX_WRAP, 1,
                                       <<NDARRAY_INDEX_WRAP>>)>>
  /\ arr = arrays[1]
  /\ ptr = NULL
  /\ mem = <<>>
  /\ out = <<>>
  /\ ret = Returned("allocate", 0)
  /\ pc = "run"
  /\ xl = NoTranslation
  /\ run = NoRun
  /\ call = NoCall

Ran(kernel, trace) ==
  /\ run' = [kernel |-> kernel, trace |-> trace]
  /\ UNCHANGED <<arr, ptr, mem, out, ret, pc, xl, arrays, call>>

Run1D ==
  /\ arrays[1].ndims = 1
  /\ Ran("1d", unary_nested_loop(arrays[1], arrays[2]))

\* NDARRAY_UNARY_1D_VIA_STRIDED: the arguments handed to the strided array
\* function (the function itself is the caller's).
unary_1d_via_strided(x1, x2) ==
  LET shape == <<x1.shape[1]>>
      strides == <<x1.strides[1], x2.strides[1]>>
      first == <<x1.data + x1.offset, x2.data + x2.offset>>
  IN [strided_arrays |->
        [k \in 1..2 |-> IF strides[k] < 0
                        THEN first[k] + (strides[k] * shape[1])
                        ELSE first[k]],
      shape |-> shape,
      strides |-> strides]

Run1DViaStrided ==
  /\ arrays[1].ndims = 1
  /\ call.fn = "none"
  /\ call' = [fn |-> "unary_1d_via_strided", args |-> <<>>,
              res |-> unary_1d_via_strided(arrays[1], arrays[2])]
  /\ UNCHANGED <<arr, ptr, mem, out, ret, pc, xl, arrays, run>>

Run2D ==
  /\ arrays[1].ndims = 2
  /\ Ran("2d", unary_nested_loop(arrays[1], arrays[2]))

Run5D ==
  /\ arrays[1].ndims = 5
  /\ Ran("5d", unary_nested_loop(arrays[1], arrays[2]))

Run9D ==
  /\ arrays[1].ndims = 9
  /\ Ran("9d", unary_nested_loop(arrays[1], arrays[2]))

Run2DBlocked ==
  /\ arrays[1].ndims = 2
  /\ Ran("2d_blocked", unary_2d_blocked_loop(arrays[1], arrays[2]))

RunND == Ran("nd", unary_nd_loop(arrays[1], arrays[2]))

(***************************************************************************)
(* Library functions that take no descriptor: the dtype registry, the      *)
(* index-mode primitives, the layout analyzers and the broadcaster         *)
(***************************************************************************)
\* The dtypes with a row in NDARRAY_SAFE_CASTS; the pointer table holds NULL
\* for every other dtype.
SafeCastRows ==
  {NDARRAY_INT8, NDARRAY_UINT8, NDARRAY_UINT8C, NDARRAY_INT16,
   NDARRAY_UINT16, NDARRAY_INT32, NDARRAY_UINT32, NDARRAY_INT64,
   NDARRAY_UINT64, NDARRAY_FLOAT32, NDARRAY_FLOAT64, NDARRAY_COMPLEX64,
   NDARRAY_COMPLEX128, NDARRAY_BOOL, NDARRAY_BINARY, NDARRAY_GENERIC}

\* Row from of the table, as the set of the dtypes whose entry is 1.
NDARRAY_SAFE_CASTS(from) ==
  CASE from = NDARRAY_FLOAT64 -> {NDARRAY_FLOAT64, NDARRAY_COMPLEX128}
    [] from = NDARRAY_FLOAT32 ->
         {NDARRAY_FLOAT32, NDARRAY_FLOAT64, NDARRAY_COMPLEX64,
          NDARRAY_COMPLEX128}
    [] from = NDARRAY_UINT64 -> {NDARRAY_UINT64}
    [] from = NDARRAY_INT64 -> {NDARRAY_INT64}
    [] from = NDARRAY_UINT32 ->
         {NDARRAY_UINT32, NDARRAY_INT64, NDARRAY_UINT64, NDARRAY_FLOAT64,
          NDARRAY_COMPLEX128}
    [] from = NDARRAY_INT32 ->
         {NDARRAY_INT32, NDARRAY_INT64, NDARRAY_FLOAT64, NDARRAY_COMPLEX128}
    [] from = NDARRAY_UINT16 ->
         {NDARRAY_UINT16, NDARRAY_INT32, NDARRAY_UINT32, NDARRAY_INT64,
          NDARRAY_UINT64, NDARRAY_FLOAT32, NDARRAY_FLOAT64,
          NDARRAY_COMPLEX64, NDARRAY_COMPLEX128}
    [] from = NDARRAY_INT16 ->
         {NDARRAY_INT16, NDARRAY_INT32, NDARRAY_INT64, NDARRAY_FLOAT32,
          NDARRAY_FLOAT64, NDARRAY_COMPLEX64, NDARRAY_COMPLEX128}
    [] from \in {NDARRAY_UINT8, NDARRAY_UINT8C} ->
         {NDARRAY_UINT8, NDARRAY_UINT8C, NDARRAY_INT16, NDARRAY_UINT16,
          NDARRAY_INT32, NDARRAY_UINT32, NDARRAY_INT64, NDARRAY_UINT64,
          NDARRAY_FLOAT32, NDARRAY_FLOAT64, NDARRAY_COMPLEX64,
          NDARRAY_COMPLEX128}
    [] from = NDARRAY_INT8 ->
         {NDARRAY_INT8, NDARRAY_INT16, NDARRAY_INT32, NDARRAY_INT64,
          NDARRAY_FLOAT32, NDARRAY_FLOAT64, NDARRAY_COMPLEX64,
          NDARRAY_COMPLEX128}
    [] from = NDARRAY_COMPLEX128 -> {NDARRAY_COMPLEX128}
    [] from = NDARRAY_COMPLEX64 -> {NDARRAY_COMPLEX64, NDARRAY_COMPLEX128}
    [] from = NDARRAY_BOOL -> {NDARRAY_BOOL}
    [] from = NDARRAY_BINARY -> {NDARRAY_BINARY}
    [] from = NDARRAY_GENERIC -> {NDARRAY_GENERIC}
    [] OTHER -> {}

\* NDARRAY_SAFE_CASTS[from][to] is read although from or to is negative or
\* NDARRAY_SAFE_CASTS[from] is NULL: the read is undefined.
safe_cast_reads_outside_table(from, to) ==
  /\ from # to
  /\ from < NDARRAY_NDTYPES /\ to < NDARRAY_NDTYPES
  /\ (from < 0 \/ to < 0 \/ from \notin SafeCastRows)

\* Variant: the table is read as NDARRAY_SAFE_CASTS[to][from].
is_safe_data_type_cast_transposed(from, to) ==
  IF from = to THEN {1}
  ELSE IF from < NDARRAY_NDTYPES /\ to < NDARRAY_NDTYPES
  THEN (IF safe_cast_reads_outside_table(to, from) THEN {0, 1}
        ELSE {IF from \in NDARRAY_SAFE_CASTS(to) THEN 1 ELSE 0})
  ELSE {0}

\* The values the function may return (an undefined read yields any value,
\* 0 or nonzero, unless it stops the process).
ndarray_is_safe_data_type_cast(from, to) ==
  IF from = to THEN {1}
  ELSE IF from < NDARRAY_NDTYPES /\ to < NDARRAY_NDTYPES
  THEN (IF safe_cast_reads_outside_table(from, to) THEN {0, 1}
        ELSE {IF to \in NDARRAY_SAFE_CASTS(from) THEN 1 ELSE 0})
  ELSE {0}

\* The kind a dtype belongs to.
dtype_kind(dtype) ==
  CASE dtype = NDARRAY_BOOL -> "boolean"
    [] dtype \in {NDARRAY_INT8, NDARRAY_INT16, NDARRAY_INT32, NDARRAY_INT64}
         -> "signed integer"
    [] dtype \in {NDARRAY_UINT8, NDARRAY_UINT16, NDARRAY_UINT32,
                  NDARRAY_UINT64} -> "unsigned integer"
    [] dtype = NDARRAY_UINT8C -> "clamped unsigned integer"
    [] dtype \in {NDARRAY_FLOAT32, NDARRAY_FLOAT64} -> "floating-point"
    [] dtype \in {NDARRAY_COMPLEX64, NDARRAY_COMPLEX128} -> "complex"
    [] dtype = NDARRAY_BINARY -> "binary"
    [] dtype = NDARRAY_GENERIC -> "generic"
    [] OTHER -> "none"

\* Row from of the same-kind table: 1 iff safe, or both of the same kind.
NDARRAY_SAME_KIND_CASTS(from) ==
  NDARRAY_SAFE_CASTS(from)
    \cup {to \in SafeCastRows : dtype_kind(to) = dtype_kind(from)}

ndarray_is_same_kind_data_type_cast(from, to) ==
  IF from = to THEN {1}
  ELSE IF from < NDARRAY_NDTYPES /\ to < NDARRAY_NDTYPES
  THEN (IF safe_cast_reads_outside_table(from, to) THEN {0, 1}
        ELSE {IF to \in NDARRAY_SAME_KIND_CASTS(from) THEN 1 ELSE 0})
  ELSE {0}

\* The dtype arguments a caller passes: every dtype, and the values up to
\* MaxDtypeOver below 0 and above NDARRAY_NDTYPES.
DtypeArgs == (-MaxDtypeOver)..(NDARRAY_NDTYPES + MaxDtypeOver)

\* The arguments of ndarray_wrap_index: indices up to four periods away from
\* the interval [0, max].
WrapMaxVals == 0..MaxIdx
WrapIdxVals == (-4 * (MaxIdx + 1))..(4 * (MaxIdx + 1))

\* No descriptor is in use beyond an empty one.
InitLibrary ==
  /\ arr = ndarray_allocate(NDARRAY_UINT8, DataBase, 0, <<>>, <<>>, 0,
                            NDARRAY_ROW_MAJOR, NDARRAY_INDEX_ERROR, 1,
                            <<NDARRAY_INDEX_ERROR>>)
  /\ Idle

\* The functions keep no state between calls, so a run makes one call.
Ready == pc = "run" /\ call.fn = "none"

Called(fn, args, res) ==
  /\ call' = [fn |-> fn, args |-> args, res |-> res]
  /\ UNCHANGED <<arr, ptr, mem, out, ret, pc, xl, arrays, run>>

BytesPerElement(dtype) ==
  /\ Ready
  /\ Called("bytes_per_element", <<dtype>>, ndarray_bytes_per_element(dtype))

IsSafeCast(from, to) ==
  /\ Ready
  /\ \/ \E r \in ndarray_is_safe_data_type_cast(from, to) :
          Called("is_safe_data_type_cast", <<from, to>>, r)
     \/ safe_cast_reads_outside_table(from, to) /\ Trap

IsSameKindCast(from, to) ==
  /\ Ready
  /\ \/ \E r \in ndarray_is_same_kind_data_type_cast(from, to) :
          Called("is_same_kind_data_type_cast", <<from, to>>, r)
     \/ safe_cast_reads_outside_table(from, to) /\ Trap

WrapIndex(idx, max) ==
  /\ Ready
  /\ Called("wrap_index", <<idx, max>>, ndarray_wrap_index(idx, max))

Strides2order(ndims, strides) ==
  /\ Ready
  /\ Called("strides2order", <<ndims, strides>>,
            ndarray_strides2order(ndims, strides))

\* for (i = 1; i < M; i++) if (ndims[i] > N) N = ndims[i];  j is i + 1.
RECURSIVE broadcast_max_ndims(_, _, _, _)
broadcast_max_ndims(M, ndims, j, N) ==
  IF j > M THEN N
  ELSE broadcast_max_ndims(M, ndims, j + 1,
                           IF ndims[j] > N THEN ndims[j] ELSE N)

\* Variant: an extent of 1 is not accepted against a different extent
\* already seen.
RECURSIVE broadcast_dim_loop_without_one_rule(_, _, _, _, _, _, _)
broadcast_dim_loop_without_one_rule(M, shapes, ndims, N, i, j, dim) ==
  IF j > M THEN [fail |-> FALSE, dim |-> dim]
  ELSE LET n2 == ndims[j] - N + i
           d == IF n2 >= 0 THEN shapes[j][n2 + 1] ELSE 1
       IN IF dim = 1
          THEN broadcast_dim_loop_without_one_rule(M, shapes, ndims, N, i,
                                                   j + 1, d)
          ELSE IF dim = d
          THEN broadcast_dim_loop_without_one_rule(M, shapes, ndims, N, i,
                                                   j + 1, dim)
          ELSE [fail |-> TRUE, dim |-> dim]

\* Variant: an extent of 1 seen first is kept instead of replaced.
RECURSIVE broadcast_dim_loop_keeps_one(_, _, _, _, _, _, _)
broadcast_dim_loop_keeps_one(M, shapes, ndims, N, i, j, dim) ==
  IF j > M THEN [fail |-> FALSE, dim |-> dim]
  ELSE LET n2 == ndims[j] - N + i
           d == IF n2 >= 0 THEN shapes[j][n2 + 1] ELSE 1
       IN IF dim = 1 \/ d = 1 \/ dim = d
          THEN broadcast_dim_loop_keeps_one(M, shapes, ndims, N, i, j + 1,
                                            dim)
          ELSE [fail |-> TRUE, dim |-> dim]

\* The loop over the shapes after the first, for the C axis i: shape j is
\* C's shapes[j-1].  Yields the extent dim, or fail when a shape cannot be
\* broadcast.
RECURSIVE broadcast_dim_loop(_, _, _, _, _, _, _)
broadcast_dim_loop(M, shapes, ndims, N, i, j, dim) ==
  IF j > M THEN [fail |-> FALSE, dim |-> dim]
  ELSE LET n2 == ndims[j] - N + i
           d == IF n2 >= 0 THEN shapes[j][n2 + 1] ELSE 1
       IN IF dim = 1
          THEN broadcast_dim_loop(M, shapes, ndims, N, i, j + 1, d)
          ELSE IF d = 1 \/ dim = d
          THEN broadcast_dim_loop(M, shapes, ndims, N, i, j + 1, dim)
          ELSE [fail |-> TRUE, dim |-> dim]

\* while (i >= 0) { ... out[i] = dim; i -= 1; }
RECURSIVE broadcast_axis_loop(_, _, _, _, _, _)
broadcast_axis_loop(M, shapes, ndims, N, i, out_) ==
  IF i < 0 THEN [status |-> 0, out |-> out_]
  ELSE LET n1 == ndims[1] - N + i
           dim == IF n1 >= 0 THEN shapes[1][n1 + 1] ELSE 1
           r == broadcast_dim_loop(M, shapes, ndims, N, i, 2, dim)
       IN IF r.fail THEN [status |-> -1, out |-> out_]
          ELSE broadcast_axis_loop(M, shapes, ndims, N, i - 1,
                                   Write(out_, i + 1, r.dim))

\* for (i = 0; i < N; i++) out[i] = sh[i];
RECURSIVE broadcast_copy_loop(_, _, _, _)
broadcast_copy_loop(sh, N, i, out_) ==
  IF i >= N THEN out_
  ELSE broadcast_copy_loop(sh, N, i + 1, Write(out_, i + 1, sh[i + 1]))

ndarray_broadcast_shapes(M, shapes, ndims, out_) ==
  IF M = 0 THEN [status |-> 0, out |-> out_]
  ELSE IF M = 1
  THEN [status |-> 0, out |-> broadcast_copy_loop(shapes[1], ndims[1], 0, out_)]
  ELSE LET N == broadcast_max_ndims(M, ndims, 2, ndims[1])
       IN broadcast_axis_loop(M, shapes, ndims, N, N - 1, out_)

\* The shape arrays a caller passes, and the lists of up to MaxShapes of
\* them.
ShapeArrays == UNION {[Axes(n) -> Extents] : n \in Ranks}
ShapeLists == UNION {[1..M -> ShapeArrays] : M \in 0..MaxShapes}

\* The output array is given by the cells the call wrote.
BroadcastShapes(shapes) ==
  /\ Ready
  /\ Called("broadcast_shapes", <<shapes>>,
            ndarray_broadcast_shapes(Len(shapes), shapes,
                                     [j \in 1..Len(shapes) |-> Len(shapes[j])],
                                     <<>>))

\* The library functions.
NextLibrary ==
  \/ Ready /\ \E dtype \in DtypeArgs : BytesPerElement(dtype)
  \/ Ready /\ \E from \in DtypeArgs, to \in DtypeArgs : IsSafeCast(from, to)
  \/ Ready /\ \E from \in DtypeArgs, to \in DtypeArgs : IsSameKindCast(from, to)
  \/ Ready /\ \E idx \in WrapIdxVals, max \in WrapMaxVals : WrapIndex(idx, max)
  \/ Ready /\ \E ndims \in Ranks : \E strides \in AllStrides(ndims) :
       Strides2order(ndims, strides)
  \/ Ready /\ \E shapes \in ShapeLists : BroadcastShapes(shapes)

SpecLibrary == InitLibrary /\ [][NextLibrary]_vars

(***************************************************************************)
(* Layout functions applied to the fields of a descriptor: the reach       *)
(* analyzers and the predicates of assert.c.                               *)
(***************************************************************************)
RECURSIVE max_view_buffer_index_loop(_, _, _, _, _, _)
max_view_buffer_index_loop(ndims, shape, strides, offset, i, idx) ==
  IF i > ndims THEN idx
  ELSE IF shape[i] = 0 THEN offset
  ELSE max_view_buffer_index_loop(ndims, shape, strides, offset, i + 1,
                                  IF strides[i] > 0
                                  THEN idx + (strides[i] * (shape[i] - 1))
                                  ELSE idx)

ndarray_max_view_buffer_index(ndims, shape, strides, offset) ==
  max_view_buffer_index_loop(ndims, shape, strides, offset, 1, offset)

RECURSIVE is_column_major_loop(_, _, _, _)
is_column_major_loop(ndims, strides, i, s1) ==
  IF i > ndims THEN 1
  ELSE IF llabs(strides[i]) < s1 THEN 0
  ELSE is_column_major_loop(ndims, strides, i + 1, llabs(strides[i]))

ndarray_is_column_major(ndims, strides) ==
  IF ndims = 0 THEN 0
  ELSE is_column_major_loop(ndims, strides, 2, llabs(strides[1]))

\* Variant: equal neighbouring strides are not row-major.
RECURSIVE is_row_major_loop_strict(_, _, _, _)
is_row_major_loop_strict(ndims, strides, i, s1) ==
  IF i > ndims THEN 1
  ELSE IF llabs(strides[i]) >= s1 THEN 0
  ELSE is_row_major_loop_strict(ndims, strides, i + 1, llabs(strides[i]))

RECURSIVE is_row_major_loop(_, _, _, _)
is_row_major_loop(ndims, strides, i, s1) ==
  IF i > ndims THEN 1
  ELSE IF llabs(strides[i]) > s1 THEN 0
  ELSE is_row_major_loop(ndims, strides, i + 1, llabs(strides[i]))

ndarray_is_row_major(ndims, strides) ==
  IF ndims = 0 THEN 0
  ELSE is_row_major_loop(ndims, strides, 2, llabs(strides[1]))

ndarray_is_single_segment_compatible(dtype, ndims, shape, strides, offset) ==
  LET len == ndarray_numel(ndims, shape)
      tmp == ndarray_minmax_view_buffer_index(ndims, shape, strides, offset)
      nbytes == ndarray_bytes_per_element(dtype)
  IN IF len = 0 THEN 0
     ELSE IF (len * nbytes) = ((tmp.max - tmp.min) + nbytes) THEN 1
     ELSE 0

ndarray_is_contiguous(dtype, ndims, shape, strides, offset) ==
  IF /\ ndarray_iteration_order(ndims, strides) # 0
     /\ ndarray_is_single_segment_compatible(dtype, ndims, shape, strides,
                                             offset) # 0
  THEN 1
  ELSE 0

ndarray_is_column_major_contiguous(dtype, ndims, shape, strides, offset) ==
  IF /\ ndarray_iteration_order(ndims, strides) # 0
     /\ ndarray_is_column_major(ndims, strides) # 0
     /\ ndarray_is_single_segment_compatible(dtype, ndims, shape, strides,
                                             offset) # 0
  THEN 1
  ELSE 0

ndarray_is_row_major_contiguous(dtype, ndims, shape, strides, offset) ==
  IF /\ ndarray_iteration_order(ndims, strides) # 0
     /\ ndarray_is_row_major(ndims, strides) # 0
     /\ ndarray_is_single_segment_compatible(dtype, ndims, shape, strides,
                                             offset) # 0
  THEN 1
  ELSE 0

\* tmp[0] / nbytes and tmp[1] / nbytes divide by the width of the dtype.
buffer_length_divides_by_zero(dtype) == ndarray_bytes_per_element(dtype) = 0

ndarray_is_buffer_length_compatible(dtype, len, ndims, shape, strides, offset) ==
  LET nbytes == ndarray_bytes_per_element(dtype)
      tmp == ndarray_minmax_view_buffer_index(ndims, shape, strides, offset)
  IN IF CDiv(tmp.min, nbytes) >= 0 /\ CDiv(tmp.max, nbytes) < len THEN 1
     ELSE 0

\* The buffer lengths (in elements) a caller asks about.
BufferLens == 0..(MaxIdx + 1)

\* A caller allocates a descriptor over any strides up to MaxLayoutStride.
LayoutStrides(ndims) == [Axes(ndims) -> (-MaxLayoutStride)..MaxLayoutStride]

InitLayout ==
  /\ \E c \in Configs, ndims \in Ranks, order \in Orders :
       \E shape \in [Axes(ndims) -> Extents], strides \in LayoutStrides(ndims) :
         arr = ndarray_allocate(c.dtype, DataBase, ndims, shape, strides,
                                c.offset, order, c.imode, Len(c.submodes),
                                c.submodes)
  /\ Idle

\* A caller applies one layout function to the fields of its descriptor.
MinmaxViewBufferIndex ==
  /\ Ready
  /\ Called("minmax_view_buffer_index", <<arr.offset>>,
            ndarray_minmax_view_buffer_index(arr.ndims, arr.shape,
                                             arr.strides, arr.offset))

MaxViewBufferIndex ==
  /\ Ready
  /\ Called("max_view_buffer_index", <<arr.offset>>,
            ndarray_max_view_buffer_index(arr.ndims, arr.shape, arr.strides,
                                          arr.offset))

Strides2offset ==
  /\ Ready
  /\ Called("strides2offset", <<>>,
            ndarray_strides2offset(arr.ndims, arr.shape, arr.strides))

\* The caller takes the offset ndarray_strides2offset returned as the offset
\* of the view and asks for the reach of that view.
MinmaxAtStrides2offset ==
  /\ pc = "run"
  /\ call.fn = "strides2offset"
  /\ Called("minmax_view_buffer_index", <<call.res>>,
            ndarray_minmax_view_buffer_index(arr.ndims, arr.shape,
                                             arr.strides, call.res))

IsBufferLengthCompatible(len) ==
  /\ Ready
  /\ \/ Called("is_buffer_length_compatible", <<len>>,
               ndarray_is_buffer_length_compatible(arr.dtype, len, arr.ndims,
                                                   arr.shape, arr.strides,
                                                   arr.offset))
     \/ buffer_length_divides_by_zero(arr.dtype) /\ Trap

IsSingleSegmentCompatible ==
  /\ Ready
  /\ Called("is_single_segment_compatible", <<>>,
            ndarray_is_single_segment_compatible(arr.dtype, arr.ndims,
                                                 arr.shape, arr.strides,
                                                 arr.offset))

IsContiguous ==
  /\ Ready
  /\ Called("is_contiguous", <<>>,
            ndarray_is_contiguous(arr.dtype, arr.ndims, arr.shape,
                                  arr.strides, arr.offset))

IsRowMajorContiguous ==
  /\ Ready
  /\ Called("is_row_major_contiguous", <<>>,
            ndarray_is_row_major_contiguous(arr.dtype, arr.ndims, arr.shape,
                                            arr.strides, arr.offset))

IsColumnMajorContiguous ==
  /\ Ready
  /\ Called("is_column_major_contiguous", <<>>,
            ndarray_is_column_major_contiguous(arr.dtype, arr.ndims,
                                               arr.shape, arr.strides,
                                               arr.offset))

NextLayout ==
  \/ MinmaxViewBufferIndex
  \/ MaxViewBufferIndex
  \/ Strides2offset
  \/ MinmaxAtStrides2offset
  \/ Ready /\ \E len \in BufferLens : IsBufferLengthCompatible(len)
  \/ IsSingleSegmentCompatible
  \/ IsContiguous
  \/ IsRowMajorContiguous
  \/ IsColumnMajorContiguous

SpecLayout == InitLayout /\ [][NextLayout]_vars

\* The descriptor and the pointers it resolves.
Next ==
  \/ \E flags \in FlagMasks : EnableFlags(flags)
  \/ \E flags \in FlagMasks : DisableFlags(flags)
  \/ \E sub \in Subs : GetPtr(sub)
  \/ \E idx \in IdxVals : IGetPtr(idx)

Spec == Init /\ [][Next]_vars

\* The descriptor and the element accessors.
NextAccess ==
  \/ \E flags \in FlagMasks : EnableFlags(flags)
  \/ \E flags \in FlagMasks : DisableFlags(flags)
  \/ \E sub \in Subs, typed \in Accessors : Get(sub, typed)
  \/ \E sub \in Subs, typed \in Accessors, v \in Vals : Set(sub, typed, v)
  \/ \E idx \in IdxVals, typed \in Accessors : IGet(idx, typed)
  \/ \E idx \in IdxVals, typed \in Accessors, v \in Vals : ISet(idx, typed, v)
  \/ \E idx \in IdxVals : Ind2sub(idx, arr.imode)

SpecAccess == InitAccess /\ [][NextAccess]_vars

\* The index translators.
NextTranslate ==
  \/ \E idx \in IdxVals, mode \in IndexModes : Vind2bind(idx, mode)
  \/ \E idx \in IdxVals, mode \in IndexModes : Bind2vind(idx, mode)
  \/ RoundTrip

SpecTranslate == InitTranslate /\ [][NextTranslate]_vars

\* The kernel loops.
NextKernel ==
  \/ Run1DViaStrided
  \/ Run1D
  \/ Run2D
  \/ Run5D
  \/ Run9D
  \/ Run2DBlocked
  \/ RunND

SpecKernel == InitKernel /\ [][NextKernel]_vars

(***************************************************************************)
(* Properties                                                              *)
(***************************************************************************)

\* C1: for every view and every view linear index i in [0, length),
\* bind2vind applied to vind2bind(i) with the same shape, strides, offset,
\* order and index mode returns i.
C1_RoundTrip ==
  (/\ xl.op = "roundtrip"
   /\ 0 <= xl.idx
   /\ xl.idx < shape_product(arr.ndims, arr.shape, 1))
    => xl.res = xl.idx

\* idx is an index the descriptor's index mode resolves into [0, length).
Resolves(idx) ==
  arr.length > 0 /\ ndarray_ind(idx, arr.length - 1, arr.imode) >= 0

\* C2: in every state reachable by allocation and enable-flags /
\* disable-flags calls, and for every idx the index mode resolves into
\* [0, length), ndarray_iget_ptr returns
\* data + vind2bind(ndims, shape, strides, offset, order, idx, imode).
C2_IGetPtrIsVind2bind ==
  [][\A idx \in IdxVals :
       (Resolves(idx) /\ IGetPtr(idx) /\ pc' = "run")
         => ptr' = arr.data
                   + ndarray_vind2bind(arr.ndims, arr.shape, arr.strides,
                                       arr.offset, arr.order, idx,
                                       arr.imode)]_vars

\* The subscript vectors inside the kernel's shape, and the address pair of
\* a subscript vector.
KernelSubs ==
  LET x1 == arrays[1]
      widest == CHOOSE m \in 0..MaxKernelExtent :
                  /\ \A k \in Axes(x1.ndims) : x1.shape[k] <= m
                  /\ \E k \in Axes(x1.ndims) : x1.shape[k] = m
  IN {s \in [Axes(x1.ndims) -> 0..(widest - 1)] :
        \A k \in Axes(x1.ndims) : s[k] < x1.shape[k]}

RECURSIVE Dot(_, _, _)
Dot(s, strides, k) ==
  IF k = 0 THEN 0 ELSE (s[k] * strides[k]) + Dot(s, strides, k - 1)

PairOf(s) ==
  LET x1 == arrays[1]
      x2 == arrays[2]
  IN <<(x1.data + x1.offset) + Dot(s, x1.strides, x1.ndims),
       (x2.data + x2.offset) + Dot(s, x2.strides, x1.ndims)>>

\* The body executions and the subscript vectors correspond one to one: every
\* address pair is seen by as many body executions as there are subscript
\* vectors with that pair.
PairedByPosition ==
  /\ \A n \in 1..Len(run.trace) : \E s \in KernelSubs : run.trace[n] = PairOf(s)
  /\ \A s \in KernelSubs :
       Cardinality({n \in 1..Len(run.trace) : run.trace[n] = PairOf(s)})
         = Cardinality({u \in KernelSubs : PairOf(u) = PairOf(s)})

\* C3: in every unary kernel driver (nested loops, blocked loops, n-D loop)
\* the addresses paired by the executions of the loop body are in one-to-one
\* correspondence by shape position: each execution pairs
\* data1 + offset1 + sum s[k]*strides1[k] with
\* data2 + offset2 + sum s[k]*strides2[k] for a subscript vector s inside
\* shape, and each subscript vector is used by exactly one execution.
C3_PairedByShapePosition == run.kernel # "none" => PairedByPosition

\* C4: each kernel loop executes its body exactly numel(shape) times, shape
\* being the input view's, in the nested loops, in the blocked loops for
\* every block size and extent, and in the n-D loop; zero times when an
\* extent is 0.
C4_BodyRunsNumelTimes ==
  run.kernel # "none"
    => Len(run.trace) = ndarray_numel(arrays[1].ndims, arrays[1].shape)

\* C4 witness: the blocked loop ran over extents that are not multiples of
\* its block size, more than one block along each axis.
C4_Witness ==
  /\ run.kernel = "2d_blocked"
  /\ \A k \in 1..2 :
       /\ arrays[1].shape[k] > unary_block_size(arrays[1], arrays[2])
       /\ arrays[1].shape[k] % unary_block_size(arrays[1], arrays[2]) # 0
  /\ Len(run.trace) = arrays[1].shape[1] * arrays[1].shape[2]

\* A subscript vector inside the shape.
Legal(sub) == \A i \in Axes(arr.ndims) : 0 <= sub[i] /\ sub[i] <= arr.shape[i] - 1

MinMax ==
  ndarray_minmax_view_buffer_index(arr.ndims, arr.shape, arr.strides,
                                   arr.offset)

\* C5 (as stated): for every legal subscript vector, the byte offset from
\* data that subscript access computes lies in
\* [offset + min_reach, offset + max_reach], (min_reach, max_reach) being the
\* pair minmax_view_buffer_index(shape, strides, offset) returns.
C5_PointerWithinOffsetPlusMinMax ==
  [][\A sub \in Subs :
       (Legal(sub) /\ GetPtr(sub) /\ pc' = "run")
         => /\ arr.offset + MinMax.min <= ptr' - arr.data
            /\ ptr' - arr.data <= arr.offset + MinMax.max]_vars

\* C5 (amended): for every legal subscript vector, the byte offset from data
\* that subscript access computes lies in [min_reach, max_reach], the pair
\* minmax_view_buffer_index(shape, strides, offset) returns, which already
\* counts from the offset.
C5_PointerWithinMinMax ==
  [][\A sub \in Subs :
       (Legal(sub) /\ GetPtr(sub) /\ pc' = "run")
         => /\ MinMax.min <= ptr' - arr.data
            /\ ptr' - arr.data <= MinMax.max]_vars

\* C5 witness: subscript access on a view with a nonzero offset and strides
\* of both signs returned the view's last byte offset.
C5_Witness ==
  /\ ret.op = "get_ptr"
  /\ ptr # NULL
  /\ arr.offset # 0
  /\ \E i, j \in Axes(arr.ndims) : arr.strides[i] < 0 /\ arr.strides[j] > 0
  /\ MinMax.min < arr.offset
  /\ ptr - arr.data = MinMax.max

\* C6: an operation that reports failure leaves the element buffer, the
\* descriptor and the caller's output location as they were before the call,
\* whatever operations preceded it.
C6_FailureWritesNothing ==
  [][ret'.status = -1 => (arr' = arr /\ mem' = mem /\ out' = out)]_vars

\* C6 witness: a call failed after elements and the output location had been
\* written.
C6_Witness ==
  /\ ret.status = -1
  /\ mem # <<>>
  /\ out # <<>>

\* The subscript mode of axis i (submodes are reused cyclically).
Submode(i) == arr.submodes[((i - 1) % arr.nsubmodes) + 1]

SubOutOfRange(sub) ==
  \E i \in Axes(arr.ndims) :
    /\ Submode(i) = NDARRAY_INDEX_ERROR
    /\ (sub[i] < 0 \/ sub[i] > arr.shape[i] - 1)

IdxOutOfRange(idx) ==
  /\ arr.imode = NDARRAY_INDEX_ERROR
  /\ (idx < 0 \/ idx > arr.length - 1)

\* A step is an element access with an out-of-range index under error mode,
\* on a descriptor of one of the given ranks for access by linear index, and
\* returns success.
OutOfRangeSucceeds(ranks) ==
  /\ ret'.status = 0
  /\ pc' = "run"
  /\ \E typed \in Accessors, v \in Vals :
       \/ \E sub \in Subs :
            /\ SubOutOfRange(sub)
            /\ Get(sub, typed) \/ Set(sub, typed, v)
       \/ \E idx \in IdxVals :
            /\ IdxOutOfRange(idx)
            /\ arr.ndims \in ranks
            /\ IGet(idx, typed) \/ ISet(idx, typed, v)

FlagsOf(dtype, ndims, shape, strides, offset) ==
  ndarray_allocate(dtype, NULL, ndims, shape, strides, offset,
                   NDARRAY_ROW_MAJOR, NDARRAY_INDEX_ERROR, 1,
                   <<NDARRAY_INDEX_ERROR>>).flags

FlagsAsComputed ==
  arr.flags = FlagsOf(arr.dtype, arr.ndims, arr.shape, arr.strides, arr.offset)

\* C8 (as stated): at every point of a descriptor's lifetime its flags are a
\* pure function of (dtype, ndims, shape, strides, offset).
C8_FlagsPureFunctionAlways == FlagsAsComputed

\* C8 (amended): the flags are that function of (dtype, ndims, shape,
\* strides, offset) when ndarray_allocate returns, and every operation other
\* than ndarray_enable_flags and ndarray_disable_flags leaves them as they are.
C8_FlagsPureFunctionAtAllocation ==
  [][/\ ret.op = "allocate" => FlagsAsComputed
     /\ ret'.op \notin {"enable_flags", "disable_flags"}
          => arr'.flags = arr.flags]_vars

\* C8 witness: an element of a contiguous descriptor was written and read
\* back, and the descriptor still carries the computed flags.
C8_Witness ==
  /\ ret = Returned("iget", 0)
  /\ mem # <<>>
  /\ arr.flags # 0
  /\ FlagsAsComputed

\* C9: no enable-flags, disable-flags or element get / set call changes a
\* descriptor field other than flags.
C9_OnlyFlagsMutable ==
  [][\A f \in (DOMAIN arr) \ {"flags"} : arr'[f] = arr[f]]_vars

\* C9 witness: an element was set after the flags had been changed.
C9_Witness ==
  /\ ret.op \in {"set", "iset"}
  /\ mem # <<>>
  /\ ~FlagsAsComputed

\* C10: a descriptor with ndims = 0 has length 1.
C10_ZeroDimsLengthOne == arr.ndims = 0 => arr.length = 1

\* C11 (as stated): in every reachable state of a descriptor whose length is
\* 0, neither ROW_MAJOR_CONTIGUOUS nor COL_MAJOR_CONTIGUOUS is set.
C11_ZeroLengthNoFlagsAlways == arr.length = 0 => arr.flags = 0

\* C11 (amended): a descriptor whose length is 0 has neither flag set when
\* ndarray_allocate returns, and no operation other than ndarray_enable_flags
\* ever sets a flag of it.
C11_ZeroLengthNoFlagsUntilEnabled ==
  [][arr.length = 0 =>
       /\ ret.op = "allocate" => arr.flags = 0
       /\ ret'.op # "enable_flags"
            => \A b \in FlagBits : HasBit(arr'.flags, b) => HasBit(arr.flags, b)]_vars

\* An empty two-dimensional array of a width-0 dtype, still without flags
\* after a pointer was asked of it.
C11_Witness ==
  /\ arr.length = 0
  /\ arr.ndims = 2
  /\ arr.BYTES_PER_ELEMENT = 0
  /\ ret.op \in {"get_ptr", "iget_ptr"}
  /\ arr.flags = 0

\* The byte strides shape_to_strides(shape, order) * width(dtype) of the
\* descriptor's shape.
NaturalByteStrides(order) ==
  [i \in Axes(arr.ndims) |->
     ndarray_shape2strides(arr.ndims, arr.shape, order)[i]
       * ndarray_bytes_per_element(arr.dtype)]

OrderBit(order) ==
  IF order = NDARRAY_ROW_MAJOR THEN NDARRAY_ROW_MAJOR_CONTIGUOUS_FLAG
  ELSE NDARRAY_COLUMN_MAJOR_CONTIGUOUS_FLAG

Dense(order) == arr.strides = NaturalByteStrides(order) /\ arr.offset = 0

NonEmpty == arr.ndims >= 1 /\ \A i \in Axes(arr.ndims) : arr.shape[i] > 0

\* C12 (as stated): if a descriptor's strides equal shape_to_strides(shape,
\* order) * width(dtype) and its offset is 0, the flag bit of that order is
\* set in the flags computed at construction.
C12_DenseSetsOrderBit ==
  ret.op = "allocate" =>
    \A order \in Orders : Dense(order) => HasBit(arr.flags, OrderBit(order))

\* C12 (amended): the same, for a descriptor with at least one axis and no
\* axis of extent 0.
C12_DenseNonEmptySetsOrderBit ==
  ret.op = "allocate" =>
    \A order \in Orders :
      (Dense(order) /\ NonEmpty) => HasBit(arr.flags, OrderBit(order))

\* A 2 x 2 array laid out row-major, freshly allocated with the row-major bit
\* alone.
C12_Witness ==
  /\ ret.op = "allocate"
  /\ arr.ndims = 2
  /\ \A i \in Axes(arr.ndims) : arr.shape[i] = 2
  /\ Dense(NDARRAY_ROW_MAJOR)
  /\ arr.flags = NDARRAY_ROW_MAJOR_CONTIGUOUS_FLAG

BothBits ==
  NDARRAY_ROW_MAJOR_CONTIGUOUS_FLAG + NDARRAY_COLUMN_MAJOR_CONTIGUOUS_FLAG

\* At most one axis has an extent greater than 1.
ReducibleTo1D ==
  Cardinality({i \in Axes(arr.ndims) : arr.shape[i] > 1}) <= 1

Natural == \E order \in Orders : arr.strides = NaturalByteStrides(order)

\* C13 (as stated): the flags computed at construction hold both bits iff the
\* view is 1-D or reducible to 1-D and its byte strides are width(dtype)
\* times the natural element strides of the shape.
C13_BothBitsIffOneDimNatural ==
  ret.op = "allocate" => (arr.flags = BothBits <=> (ReducibleTo1D /\ Natural))

\* The number of elements of axes i .. ndims, and the bytes between the
\* first and the last element reached along them.
RECURSIVE Elements(_)
Elements(i) == IF i > arr.ndims THEN 1 ELSE arr.shape[i] * Elements(i + 1)

RECURSIVE Reach(_)
Reach(i) ==
  IF i > arr.ndims THEN 0
  ELSE (arr.shape[i] - 1) * Abs(arr.strides[i]) + Reach(i + 1)

SameSign ==
  \/ \A i \in Axes(arr.ndims) : arr.strides[i] >= 0
  \/ \A i \in Axes(arr.ndims) : arr.strides[i] < 0

SingleSegment ==
  /\ NonEmpty
  /\ SameSign
  /\ Elements(1) * ndarray_bytes_per_element(arr.dtype)
       = Reach(1) + ndarray_bytes_per_element(arr.dtype)

EqualMagnitudes ==
  \A i, j \in Axes(arr.ndims) : Abs(arr.strides[i]) = Abs(arr.strides[j])

\* C13 (amended): the flags computed at construction hold both bits iff the
\* view has an element, its strides are all nonnegative or all negative, it
\* fills one segment (length * width = max_reach - min_reach + width) and its
\* strides all have the same magnitude.
C13_BothBitsIffSegmentOfEqualStrides ==
  ret.op = "allocate" =>
    (arr.flags = BothBits <=> (SingleSegment /\ EqualMagnitudes))

\* A freshly allocated two-dimensional array with an axis of extent 2 that
\* holds both bits.
C13_Witness ==
  /\ ret.op = "allocate"
  /\ arr.ndims = 2
  /\ \E i \in Axes(arr.ndims) : arr.shape[i] = 2
  /\ arr.flags = BothBits

OutsideDtypes(dtype) == dtype < 0 \/ dtype >= NDARRAY_NDTYPES

\* C15: safe_cast(from, to) and same_kind_cast(from, to) return false
\* whenever from # to and either dtype index is negative or at least the
\* number of dtypes.
C15_OutOfRangeCastIsFalse ==
  (/\ call.fn \in {"is_safe_data_type_cast", "is_same_kind_data_type_cast"}
   /\ call.args[1] # call.args[2]
   /\ (OutsideDtypes(call.args[1]) \/ OutsideDtypes(call.args[2])))
    => call.res = 0

\* The values of a dtype: whether some are negative, the bits of the largest
\* magnitude among its integers (of a floating-point or complex dtype: the
\* bits of its significand, up to which every integer is a value), and the
\* bits of its exponent.
Numeric ==
  {NDARRAY_BOOL, NDARRAY_INT8, NDARRAY_UINT8, NDARRAY_UINT8C, NDARRAY_INT16,
   NDARRAY_UINT16, NDARRAY_INT32, NDARRAY_UINT32, NDARRAY_INT64,
   NDARRAY_UINT64, NDARRAY_FLOAT32, NDARRAY_FLOAT64, NDARRAY_COMPLEX64,
   NDARRAY_COMPLEX128}

Integral ==
  {NDARRAY_BOOL, NDARRAY_INT8, NDARRAY_UINT8, NDARRAY_UINT8C, NDARRAY_INT16,
   NDARRAY_UINT16, NDARRAY_INT32, NDARRAY_UINT32, NDARRAY_INT64,
   NDARRAY_UINT64}

Complex == {NDARRAY_COMPLEX64, NDARRAY_COMPLEX128}

HasNegatives(dtype) ==
  dtype \notin {NDARRAY_BOOL, NDARRAY_UINT8, NDARRAY_UINT8C, NDARRAY_UINT16,
                NDARRAY_UINT32, NDARRAY_UINT64}

MagnitudeBits(dtype) ==
  CASE dtype = NDARRAY_BOOL -> 1
    [] dtype \in {NDARRAY_UINT8, NDARRAY_UINT8C} -> 8
    [] dtype = NDARRAY_INT8 -> 7
    [] dtype = NDARRAY_UINT16 -> 16
    [] dtype = NDARRAY_INT16 -> 15
    [] dtype = NDARRAY_UINT32 -> 32
    [] dtype = NDARRAY_INT32 -> 31
    [] dtype = NDARRAY_UINT64 -> 64
    [] dtype = NDARRAY_INT64 -> 63
    [] dtype \in {NDARRAY_FLOAT32, NDARRAY_COMPLEX64} -> 24
    [] dtype \in {NDARRAY_FLOAT64, NDARRAY_COMPLEX128} -> 53

ExponentBits(dtype) ==
  IF dtype \in {NDARRAY_FLOAT32, NDARRAY_COMPLEX64} THEN 8 ELSE 11

\* Every value of from is a value of to.
Representable(from, to) ==
  IF from \in Integral
  THEN /\ HasNegatives(from) => HasNegatives(to)
       /\ MagnitudeBits(from) <= MagnitudeBits(to)
  ELSE /\ to \notin Integral
       /\ from \in Complex => to \in Complex
       /\ MagnitudeBits(from) <= MagnitudeBits(to)
       /\ ExponentBits(from) <= ExponentBits(to)

SafeCastOfNumerics ==
  /\ call.fn = "is_safe_data_type_cast"
  /\ call.args[1] \in Numeric
  /\ call.args[2] \in Numeric

\* C16 (as stated): for every pair of boolean, integer, floating-point and
\* complex dtypes that have a safe-cast table row, safe_cast(from, to) is
\* true iff every value of from is a value of to.
C16_SafeIffRepresentable ==
  SafeCastOfNumerics =>
    (call.res = 1 <=> Representable(call.args[1], call.args[2]))

\* C16 (amended): the same for every such pair but a cast from boolean to
\* another dtype, for which safe_cast is false.
C16_SafeIffRepresentableButFromBool ==
  SafeCastOfNumerics =>
    IF call.args[1] = NDARRAY_BOOL /\ call.args[2] # NDARRAY_BOOL
    THEN call.res = 0
    ELSE call.res = 1 <=> Representable(call.args[1], call.args[2])

\* uint32 was found to cast safely to float64.
C16_Witness ==
  /\ call.fn = "is_safe_data_type_cast"
  /\ call.args = <<NDARRAY_UINT32, NDARRAY_FLOAT64>>
  /\ call.res = 1

\* The shapes of the last broadcast, the rank of its result, and the extents
\* the right-aligned shapes have on output axis k (a shape too short to
\* reach the axis has none).
BroadcastArgs == call.args[1]

RECURSIVE MaxRank(_)
MaxRank(shapes) ==
  IF shapes = <<>> THEN 0
  ELSE LET m == MaxRank(Tail(shapes))
       IN IF Len(Head(shapes)) > m THEN Len(Head(shapes)) ELSE m

ExtentsOnAxis(shapes, k) ==
  {shapes[j][Len(shapes[j]) - MaxRank(shapes) + k] :
     j \in {j \in 1..Len(shapes) : Len(shapes[j]) - MaxRank(shapes) + k >= 1}}

Compatible(shapes) ==
  \A k \in 1..MaxRank(shapes) :
    Cardinality(ExtentsOnAxis(shapes, k) \ {1}) <= 1

BroadcastExtent(shapes, k) ==
  IF ExtentsOnAxis(shapes, k) \ {1} = {} THEN 1
  ELSE CHOOSE e \in ExtentsOnAxis(shapes, k) \ {1} : TRUE

\* C17: broadcasting M >= 1 right-aligned shapes returns status 0 iff on
\* every output axis all input extents different from 1 are equal; on
\* success every output extent is that common extent, or 1 when all input
\* extents on the axis are 1 or absent; otherwise it returns -1.
C17_BroadcastRule ==
  (call.fn = "broadcast_shapes" /\ Len(BroadcastArgs) >= 1) =>
    /\ call.res.status = 0 <=> Compatible(BroadcastArgs)
    /\ call.res.status # 0 => call.res.status = -1
    /\ call.res.status = 0 =>
         /\ DOMAIN call.res.out = 1..MaxRank(BroadcastArgs)
         /\ \A k \in 1..MaxRank(BroadcastArgs) :
              call.res.out[k] = BroadcastExtent(BroadcastArgs, k)

\* Three shapes of different ranks were broadcast to a shape that takes an
\* extent from a shape other than the first.
C17_Witness ==
  /\ call.fn = "broadcast_shapes"
  /\ Len(BroadcastArgs) = 3
  /\ Len(BroadcastArgs[1]) < Len(BroadcastArgs[2])
  /\ Len(BroadcastArgs[3]) < Len(BroadcastArgs[1])
  /\ call.res.status = 0
  /\ \E k \in 1..MaxRank(BroadcastArgs) : call.res.out[k] > 1

Reorderings(M) ==
  {p \in [1..M -> 1..M] : \A i, j \in 1..M : p[i] = p[j] => i = j}

Reordered(shapes, p) == [j \in 1..Len(shapes) |-> shapes[p[j]]]

BroadcastOf(shapes) ==
  ndarray_broadcast_shapes(Len(shapes), shapes,
                           [j \in 1..Len(shapes) |-> Len(shapes[j])], <<>>)

\* C18: for every list of shapes and every reordering of it, the broadcaster
\* returns the same status and, on success, the same output shape.
C18_BroadcastOrderIndependent ==
  call.fn = "broadcast_shapes" =>
    \A p \in Reorderings(Len(BroadcastArgs)) :
      LET r == BroadcastOf(Reordered(BroadcastArgs, p))
      IN /\ r.status = call.res.status
         /\ call.res.status = 0 => r.out = call.res.out

\* Three pairwise different shapes, one of them with an extent the others
\* stretch to, were broadcast.
C18_Witness ==
  /\ call.fn = "broadcast_shapes"
  /\ Len(BroadcastArgs) = 3
  /\ \A i, j \in 1..3 : i # j => BroadcastArgs[i] # BroadcastArgs[j]
  /\ BroadcastArgs[3] = <<2, 1>>
  /\ call.res.status = 0
  /\ call.res.out = <<2, 2>>

TableWidth(dtype) ==
  CASE dtype \in {NDARRAY_BOOL, NDARRAY_INT8, NDARRAY_UINT8, NDARRAY_UINT8C,
                  NDARRAY_BINARY} -> 1
    [] dtype \in {NDARRAY_INT16, NDARRAY_UINT16, NDARRAY_FLOAT16,
                  NDARRAY_BFLOAT16} -> 2
    [] dtype \in {NDARRAY_INT32, NDARRAY_UINT32, NDARRAY_FLOAT32} -> 4
    [] dtype \in {NDARRAY_INT64, NDARRAY_UINT64, NDARRAY_FLOAT64,
                  NDARRAY_COMPLEX64} -> 8
    [] dtype \in {NDARRAY_INT128, NDARRAY_UINT128, NDARRAY_FLOAT128,
                  NDARRAY_COMPLEX128} -> 16
    [] dtype \in {NDARRAY_INT256, NDARRAY_UINT256} -> 32

\* C20: width(dtype) returns, for every dtype the dtype-code table gives a
\* width, exactly that width.
C20_WidthAsInTable ==
  (/\ call.fn = "bytes_per_element"
   /\ call.args[1] \in 0..(NDARRAY_NDTYPES - 1)
   /\ call.args[1] # NDARRAY_GENERIC)
    => call.res = TableWidth(call.args[1])

\* The byte offset from data of the element at a subscript vector.
RECURSIVE SubOffset(_, _)
SubOffset(sub, i) ==
  IF i > arr.ndims THEN 0 ELSE arr.strides[i] * sub[i] + SubOffset(sub, i + 1)

\* The legal subscript vectors of the view and the byte offsets from data of
\* its elements, for a view that starts at the given offset.
LegalSubs ==
  {sub \in [Axes(arr.ndims) -> 0..MaxExtent] : Legal(sub)}

ElementOffsets(offset) == {offset + SubOffset(sub, 1) : sub \in LegalSubs}

AllExtentsPositive == \A i \in Axes(arr.ndims) : arr.shape[i] >= 1

\* C21: for a shape whose extents are all >= 1, any strides and any offset,
\* minmax_view_buffer_index returns the least and the greatest of
\* offset + sum of strides[i] * s[i] over the legal subscript vectors s, both
\* attained by a legal subscript vector; max_view_buffer_index returns the
\* greatest.
C21_MinMaxExact ==
  /\ (call.fn = "minmax_view_buffer_index" /\ AllExtentsPositive) =>
       LET offs == ElementOffsets(call.args[1]) IN
       /\ call.res.min \in offs
       /\ call.res.max \in offs
       /\ \A b \in offs : call.res.min <= b /\ b <= call.res.max
  /\ (call.fn = "max_view_buffer_index" /\ AllExtentsPositive) =>
       LET offs == ElementOffsets(call.args[1]) IN
       /\ call.res \in offs
       /\ \A b \in offs : b <= call.res

\* A two-dimensional view with strides of both signs and a nonzero offset
\* whose reach was computed.
C21_Witness ==
  /\ call.fn = "minmax_view_buffer_index"
  /\ AllExtentsPositive
  /\ arr.ndims = 2
  /\ arr.offset # 0
  /\ \E i, j \in Axes(arr.ndims) :
       /\ arr.strides[i] < 0 /\ arr.shape[i] > 1
       /\ arr.strides[j] > 0 /\ arr.shape[j] > 1
  /\ call.res.min < arr.offset
  /\ call.res.max > arr.offset

\* C22: for a shape whose extents are all >= 1 and any strides, the view
\* whose offset is strides2offset(shape, strides) has min_reach 0: every
\* legal subscript vector maps to a nonnegative byte offset and the lowest
\* element sits at offset 0.
C22_Strides2offsetReachesZero ==
  (/\ call.fn = "minmax_view_buffer_index"
   /\ AllExtentsPositive
   /\ call.args[1] = ndarray_strides2offset(arr.ndims, arr.shape,
                                            arr.strides)) =>
    /\ call.res.min = 0
    /\ 0 \in ElementOffsets(call.args[1])
    /\ \A b \in ElementOffsets(call.args[1]) : b >= 0

\* The reach of a two-dimensional view with a negative stride was computed
\* at the offset strides2offset returned, which is not the descriptor's own.
C22_Witness ==
  /\ call.fn = "minmax_view_buffer_index"
  /\ AllExtentsPositive
  /\ arr.ndims = 2
  /\ \E i \in Axes(arr.ndims) : arr.strides[i] < 0 /\ arr.shape[i] > 1
  /\ call.args[1] = ndarray_strides2offset(arr.ndims, arr.shape, arr.strides)
  /\ call.args[1] > arr.offset
  /\ call.res.min = 0

\* The descriptor holds a contiguity flag as the allocator computed it.
FlaggedContiguous ==
  /\ ret.op = "allocate"
  /\ \/ HasBit(arr.flags, NDARRAY_ROW_MAJOR_CONTIGUOUS_FLAG)
     \/ HasBit(arr.flags, NDARRAY_COLUMN_MAJOR_CONTIGUOUS_FLAG)

\* C23: whenever the allocator sets a contiguity flag, distinct legal
\* subscript vectors map to distinct byte offsets, and the set of element
\* offsets is {min_reach + k * width : 0 <= k < length}, zero strides
\* included.
C23_FlaggedElementsAdjacent ==
  FlaggedContiguous =>
    /\ Cardinality(ElementOffsets(arr.offset)) = Cardinality(LegalSubs)
    /\ ElementOffsets(arr.offset)
         = {MinMax.min + k * arr.BYTES_PER_ELEMENT : k \in 0..(arr.length - 1)}

\* C24: if is_buffer_length_compatible(dtype, len, ...) returns 1, every
\* element lies wholly inside a buffer of len elements: for every legal
\* subscript vector the element's first byte offset b satisfies 0 <= b and
\* b + width <= len * width.
C24_CompatibleBufferHoldsView ==
  (call.fn = "is_buffer_length_compatible" /\ call.res = 1) =>
    \A b \in ElementOffsets(arr.offset) :
      /\ 0 <= b
      /\ b + ndarray_bytes_per_element(arr.dtype)
           <= call.args[1] * ndarray_bytes_per_element(arr.dtype)

\* C25: for a descriptor of rank >= 1 whose length is 0, access by linear
\* view index under error, clamp and wrap completes without dividing by zero
\* and ndarray_iget_ptr returns NULL, for every idx.
C25_EmptyViewYieldsNull ==
  [][\A idx \in IdxVals :
       (arr.ndims >= 1 /\ arr.length = 0 /\ IGetPtr(idx))
         => (pc' = "run" /\ ptr' = NULL)]_vars

\* The index is accepted: normalising it neither fails nor divides by zero.
Accepted(idx, mode) ==
  LET len == shape_product(arr.ndims, arr.shape, 1) IN
  /\ ~normalize_divides_by_zero(len, idx, mode)
  /\ ~normalize_index(len, idx, mode).fail

\* C26: for every accepted index, every shape and every stride array, zero
\* strides included, neither bind2vind nor ind2sub at a nonzero offset
\* divides by zero.
C26_NoDivisionByZeroStride ==
  [][\A idx \in IdxVals, mode \in IndexModes :
       /\ (Accepted(idx, mode) /\ Bind2vind(idx, mode)) => pc' = "run"
       /\ (Accepted(idx, mode) /\ arr.offset # 0 /\ Ind2sub(idx, mode))
            => pc' = "run"]_vars

\* ind2sub in error mode, given the buffer index of each legal subscript
\* vector, returns 0 and writes that subscript vector.
Ind2subInverts ==
  \A idx \in IdxVals :
    \A s \in LegalSubs :
      (idx = arr.offset + SubOffset(s, 1) /\ Ind2sub(idx, NDARRAY_INDEX_ERROR))
        => /\ pc' = "run"
           /\ ret' = Returned("ind2sub", 0)
           /\ \A i \in Axes(arr.ndims) : out'[i] = s[i]

\* The strides are, up to the sign of each, the strides of a dense array of
\* the shape in the view's order, and the offset is the one strides2offset
\* gives for them.
NaturalUpToSign ==
  \A i \in Axes(arr.ndims) :
    Abs(arr.strides[i])
      = ndarray_shape2strides(arr.ndims, arr.shape, arr.order)[i]

OffsetFromStrides ==
  arr.offset = ndarray_strides2offset(arr.ndims, arr.shape, arr.strides)

\* C28 (as stated): for every view with offset # 0 and every legal subscript
\* vector s, ind2sub in error mode with b = offset + sum strides[i] * s[i]
\* returns status 0 and writes s.
C28_Ind2subInvertsAtAnyOffset ==
  [][arr.offset # 0 => Ind2subInverts]_vars

\* C28 (amended): the same for every view with offset # 0 whose strides are
\* the natural strides of its shape in its order, each of either sign, and
\* whose offset is strides2offset(shape, strides).
C28_Ind2subInvertsAtOffsetFromStrides ==
  [][(arr.offset # 0 /\ NaturalUpToSign /\ OffsetFromStrides)
       => Ind2subInverts]_vars

\* ind2sub recovered the subscripts (0, 1) of a 2 x 2 view with a negative
\* stride along the first axis from the buffer index.
C28_Witness ==
  /\ ret = Returned("ind2sub", 0)
  /\ arr.ndims = 2
  /\ arr.shape = <<2, 2>>
  /\ arr.strides[1] < 0
  /\ arr.offset # 0
  /\ NaturalUpToSign
  /\ OffsetFromStrides
  /\ out[1] = 0
  /\ out[2] = 1

\* C27: for every pair of distinct dtypes from and to in [0, NDARRAY_NDTYPES),
\* int128, uint128, int256, uint256, float16, bfloat16 and float128 included,
\* safe_cast(from, to) reads an entry of an existing row of the table and
\* returns 0 or 1.
C27_SafeCastReadsExistingRow ==
  [][\A from \in 0..(NDARRAY_NDTYPES - 1), to \in 0..(NDARRAY_NDTYPES - 1) :
       (from # to /\ IsSafeCast(from, to))
         => /\ from \in SafeCastRows
            /\ pc' = "run"
            /\ call'.res \in {0, 1}]_vars

\* C29: in the 1-D via-strided kernel, the data pointer handed to the strided
\* function for a view with a negative stride is the address of the view's
\* last indexed element, data + offset + stride * (shape[0] - 1), the lowest
\* address the view reaches, and never below it (for a view with an element).
C29_PointerAtLastElement ==
  call.fn = "unary_1d_via_strided" =>
    \A k \in 1..2 :
      (arrays[k].strides[1] < 0 /\ arrays[1].shape[1] >= 1) =>
        call.res.strided_arrays[k]
          = (arrays[k].data + arrays[k].offset)
              + (arrays[k].strides[1] * (arrays[1].shape[1] - 1))

\* C30: the flags the allocator caches agree with the layout predicates:
\* ROW_MAJOR_CONTIGUOUS is set iff is_row_major_contiguous(dtype, ndims,
\* shape, strides, offset) returns 1, and COL_MAJOR_CONTIGUOUS is set iff
\* is_column_major_contiguous(dtype, ndims, shape, strides, offset) does.
C30_FlagsAgreeWithPredicates ==
  /\ call.fn = "is_row_major_contiguous" =>
       (HasBit(arr.flags, NDARRAY_ROW_MAJOR_CONTIGUOUS_FLAG) <=> call.res = 1)
  /\ call.fn = "is_column_major_contiguous" =>
       (HasBit(arr.flags, NDARRAY_COLUMN_MAJOR_CONTIGUOUS_FLAG)
          <=> call.res = 1)

\* The row-major predicate held of a 2 x 2 array whose flags hold the
\* row-major bit only.
C30_Witness ==
  /\ call.fn = "is_row_major_contiguous"
  /\ call.res = 1
  /\ arr.ndims = 2
  /\ arr.shape = <<2, 2>>
  /\ arr.flags = NDARRAY_ROW_MAJOR_CONTIGUOUS_FLAG

=============================================================================
